---- MODULE Spec2Model ----
(***************************************************************************)
(* The hearing monitor of check_new_hearings.py: the tracked-event store   *)
(* (seen_events.json), the reconciliation run main() performs on every     *)
(* invocation, and the matching pass of process_event_changes.             *)
(*                                                                         *)
(* Encoding of Python values:                                              *)
(*   - timestamps are whole days on the clock `now` (isoformat strings     *)
(*     compare and subtract as the instants they denote);                  *)
(*   - EventDate is a day number, NoDate for a missing/empty string and    *)
(*     BadDate for a non-empty string strptime rejects;                    *)
(*   - EventTime is a slot of the day (1 .. SlotsPerDay-1), NoTime for a   *)
(*     missing/empty string and BadTime for a string strptime rejects;     *)
(*   - a comment is a sequence of characters, NoneStr standing for None;   *)
(*   - the store is the sequence of its entries in dict insertion order,   *)
(*     the key of an entry being str(event_data.EventId).                  *)
(***************************************************************************)
EXTENDS Integers, Sequences, FiniteSets, TLC

VARIABLES
    seen_events_db,   \* the persisted store (HISTORY_FILE)
    now,              \* the wall clock, in days; one reading per run stands for
                      \* the datetime.now() calls of lines 195 and 298
    runs,             \* number of runs of main() so far
    source,           \* the remote calendar: the events the API serves, in fetch order
    last,             \* what the last run of main() to end read, computed and reported
    web_file,         \* the web artifact (OUTPUT_EVENTS_FILE)
    inflight          \* the runs of main() under way: for each process, the
                      \* line it has reached and its local variables

vars == <<seen_events_db, now, runs, source, last, web_file, inflight>>

----------------------------------------------------------------------------
(* Bounds of the model *)

MaxRuns == 2

SlotsPerDay == 3

\* the most records the paged source holds, and the largest page size asked
MaxRecords == 6

MaxTop == 3

(* Encodings of Python's None / unparseable strings *)

NoDate == 0

BadDate == -1

NoTime == 0

BadTime == -1

NoDT == -1

MaxDT == 1000000

NoneStr == <<"None">>

NoDetails == [none |-> TRUE]

(* The grace cutoff of the matching pass: timedelta(days=30) *)
MatchCutoffDays == 30

----------------------------------------------------------------------------
(* Small sequence helpers *)

Range(s) == {s[i] : i \in 1..Len(s)}

Contains(s, x) == \E i \in 1..Len(s) : s[i] = x

RECURSIVE Strip(_)
\* str.strip(): leading and trailing blanks removed
Strip(s) ==
    IF s = <<>> THEN <<>>
    ELSE IF Head(s) = " " THEN Strip(Tail(s))
    ELSE IF s[Len(s)] = " " THEN Strip(SubSeq(s, 1, Len(s) - 1))
    ELSE s

\* (x or ""): None and "" both give ""
OrEmpty(c) == IF c = NoneStr \/ c = <<>> THEN <<>> ELSE c

\* position of the entry keyed event_id in the store, 0 when absent
IndexOf(db, event_id) ==
    IF \E i \in 1..Len(db) : db[i].event_data.EventId = event_id
    THEN CHOOSE i \in 1..Len(db) : db[i].event_data.EventId = event_id
    ELSE 0

Ids(db) == {db[i].event_data.EventId : i \in 1..Len(db)}

Entry(db, event_id) == db[IndexOf(db, event_id)]

----------------------------------------------------------------------------
(* get_event_datetime *)

\* mutant: a date strptime rejects is taken for the furthest date
get_event_datetime_guessing(event_data) ==
    LET d == event_data.EventDate
        t == event_data.EventTime
    IN  IF d = NoDate THEN NoDT
        ELSE IF d = BadDate THEN MaxDT
        ELSE IF t = NoTime THEN d * SlotsPerDay
        ELSE IF t = BadTime THEN d * SlotsPerDay
        ELSE d * SlotsPerDay + t

get_event_datetime(event_data) ==
    LET d == event_data.EventDate
        t == event_data.EventTime
    IN  IF d = NoDate THEN NoDT
        ELSE IF d = BadDate THEN NoDT
        ELSE IF t = NoTime THEN d * SlotsPerDay
        ELSE IF t = BadTime THEN d * SlotsPerDay
        ELSE d * SlotsPerDay + t

(* check_significant_event_data_change *)

check_significant_event_data_change(current_api_event, stored_event_data) ==
    \/ current_api_event.EventDate # stored_event_data.EventDate
    \/ current_api_event.EventTime # stored_event_data.EventTime
    \/ current_api_event.EventLocation # stored_event_data.EventLocation
    \/ current_api_event.EventBodyName # stored_event_data.EventBodyName
    \/ current_api_event.EventAgendaStatusName # stored_event_data.EventAgendaStatusName
    \/ current_api_event.EventComment # stored_event_data.EventComment

(* initialize_seen_event_entry *)

initialize_seen_event_entry(event_obj, current_time_iso) ==
    [ event_data |-> event_obj,
      first_seen_timestamp |-> current_time_iso,
      last_seen_timestamp |-> current_time_iso,
      last_processed_timestamp |-> current_time_iso,
      last_significant_change_timestamp |-> current_time_iso,
      current_status |-> "active",
      original_event_details_if_rescheduled |-> NoDetails,
      rescheduled_event_details_if_deferred |-> NoDetails,
      processing_tags |-> <<>>,
      last_alert_type |-> "new",
      last_alert_timestamp |-> current_time_iso ]

\* api.get_event_items + extract_topic_from_items for a new event
FetchedTopic(event_id) == "topic"

----------------------------------------------------------------------------
(* Pass 1 of process_event_changes, one record of the batch *)

IsDeferredApi(obj) == obj.EventAgendaStatusName = "Deferred"

\* mutant: a record first seen deferred keeps the alert of a new hearing
Pass1NewKeepingNewAlert(obj, t) ==
    LET e0 == initialize_seen_event_entry(
                  obj @@ [SyntheticMeetingTopic |-> FetchedTopic(obj.EventId)], t)
        e1 == [e0 EXCEPT !.processing_tags = Append(@, "newly_added")]
    IN  IF IsDeferredApi(obj)
        THEN [e1 EXCEPT !.current_status = "deferred_pending_match",
                        !.processing_tags = Append(@, "became_deferred_on_first_seen")]
        ELSE e1

\* lines 213-239: the identity is not in the store
Pass1New(obj, t) ==
    LET e0 == initialize_seen_event_entry(
                  obj @@ [SyntheticMeetingTopic |-> FetchedTopic(obj.EventId)], t)
        e1 == [e0 EXCEPT !.processing_tags = Append(@, "newly_added")]
    IN  IF IsDeferredApi(obj)
        THEN [e1 EXCEPT !.current_status = "deferred_pending_match",
                        !.last_alert_type = "deferred",
                        !.last_alert_timestamp = t,
                        !.last_significant_change_timestamp = t,
                        !.processing_tags = Append(@, "became_deferred_on_first_seen")]
        ELSE e1

\* mutant: the deferral writes the status of a matched original
DeferActiveAsRescheduled(e, t) ==
    [e EXCEPT !.current_status = "deferred_rescheduled_internal",
              !.last_alert_type = "deferred",
              !.last_alert_timestamp = t,
              !.processing_tags = Append(@, "became_deferred")]

\* mutant: the deferral keeps the time of the previous alert
DeferActiveKeepingAlertTime(e, t) ==
    [e EXCEPT !.current_status = "deferred_pending_match",
              !.last_alert_type = "deferred",
              !.processing_tags = Append(@, "became_deferred")]

\* lines 251-261: a significant change that is a deferral of an active entry
DeferActive(e, t) ==
    [e EXCEPT !.current_status = "deferred_pending_match",
              !.last_alert_type = "deferred",
              !.last_alert_timestamp = t,
              !.processing_tags = Append(@, "became_deferred")]

\* the statuses the engine writes
Statuses == {"active", "deferred_pending_match", "deferred_rescheduled_internal"}

\* previous_status.startswith("deferred_")
StartsWithDeferred(status) ==
    status \in {"deferred_pending_match", "deferred_rescheduled_internal"}

\* mutant: only a matched original reverts, a pending entry stays pending
RevertsToActiveOnlyRescheduled(obj, previous_status) ==
    ~IsDeferredApi(obj) /\ previous_status = "deferred_rescheduled_internal"

\* line 262: a deferred_* entry whose label is no longer Deferred
RevertsToActive(obj, previous_status) ==
    ~IsDeferredApi(obj) /\ StartsWithDeferred(previous_status)

\* mutant: the reversion tags the entry and leaves its status
RevertToActiveInTagOnly(e) ==
    [e EXCEPT !.processing_tags = Append(@, "deferral_reverted_to_active")]

\* mutant: the reversion re-alerts the entry as new
RevertToActiveAlerting(e) ==
    [e EXCEPT !.current_status = "active",
              !.last_alert_type = "new",
              !.processing_tags = Append(@, "deferral_reverted_to_active")]

\* lines 264-270: the reversion; the deferral alert stands
RevertToActive(e) ==
    [e EXCEPT !.current_status = "active",
              !.processing_tags = Append(@, "deferral_reverted_to_active")]

\* mutant: seeing the entry again restarts its history
ResetForRunRestarting(e, t) ==
    [e EXCEPT !.first_seen_timestamp = t, !.last_seen_timestamp = t,
              !.processing_tags = <<>>]

\* mutant: the tags of the previous run are kept
ResetForRunKeepingTags(e, t) ==
    [e EXCEPT !.last_seen_timestamp = t]

\* lines 243-244: the entry is seen again, its tags start afresh
ResetForRun(e, t) ==
    [e EXCEPT !.last_seen_timestamp = t, !.processing_tags = <<>>]

\* lines 241-290: the identity is in the store
Pass1Known(e, obj, t) ==
    LET s0 == ResetForRun(e, t)
        changed == check_significant_event_data_change(obj, s0.event_data)
        previous_status == s0.current_status
        becomes_deferred == changed /\ IsDeferredApi(obj) /\ previous_status = "active"
        s1 == IF changed
              THEN LET a == IF becomes_deferred THEN DeferActive(s0, t)
                            ELSE IF RevertsToActive(obj, previous_status)
                                 THEN RevertToActive(s0)
                                 ELSE s0
                       b == [a EXCEPT !.event_data = obj,
                                      !.last_significant_change_timestamp = t]
                   IN  IF becomes_deferred THEN b
                       ELSE [b EXCEPT !.processing_tags = Append(@, "data_changed")]
              ELSE IF IsDeferredApi(obj) /\ s0.current_status = "active"
                   THEN [s0 EXCEPT !.current_status = "deferred_pending_match",
                                   !.last_alert_type = "deferred",
                                   !.last_alert_timestamp = t,
                                   !.event_data.EventAgendaStatusName = "Deferred",
                                   !.last_significant_change_timestamp = t,
                                   !.processing_tags = Append(@, "became_deferred")]
                   ELSE s0
    IN  [s1 EXCEPT !.last_processed_timestamp = t]

\* whether Pass 1 reports the known entry e as newly deferred for record obj
Pass1KnownDefers(e, obj) ==
    IsDeferredApi(obj) /\ e.current_status = "active"

RECURSIVE Pass1(_, _, _, _)
\* lines 207-290: the loop over api_events; acc = [db, added, deferred, processed]
Pass1(api_events, acc, t, k) ==
    IF k > Len(api_events) THEN acc
    ELSE
      LET obj == api_events[k]
          event_id == obj.EventId
          i == IndexOf(acc.db, event_id)
          nxt ==
            IF i = 0
            THEN [ db |-> Append(acc.db, Pass1New(obj, t)),
                   added |-> Append(acc.added, event_id),
                   deferred |-> IF IsDeferredApi(obj)
                                THEN Append(acc.deferred, event_id)
                                ELSE acc.deferred,
                   processed |-> acc.processed \cup {event_id} ]
            ELSE [ db |-> [acc.db EXCEPT ![i] = Pass1Known(acc.db[i], obj, t)],
                   added |-> acc.added,
                   deferred |-> IF Pass1KnownDefers(acc.db[i], obj)
                                THEN Append(acc.deferred, event_id)
                                ELSE acc.deferred,
                   processed |-> acc.processed \cup {event_id} ]
      IN  Pass1(api_events, nxt, t, k + 1)

----------------------------------------------------------------------------
(* Pass 2 of process_event_changes: the matching pass *)

\* line 304: only entries processed this run, or pending a match, are looked at
ConsideredInPass2(entry, t) ==
    \/ entry.last_processed_timestamp = t
    \/ entry.current_status = "deferred_pending_match"

\* mutant: any active entry processed by this run is a target
IsRescheduleTargetAnyActive(entry, t) ==
    /\ ConsideredInPass2(entry, t)
    /\ entry.current_status = "active"
    /\ entry.event_data.EventDate # NoDate

\* lines 305-308: a potential reschedule target
IsRescheduleTarget(entry, t) ==
    /\ ConsideredInPass2(entry, t)
    /\ entry.current_status = "active"
    /\ Contains(entry.processing_tags, "newly_added")
    /\ entry.event_data.EventDate # NoDate

\* mutant: the cutoff excludes an alert exactly 30 days old
IsAwaitingMatchStrict(entry, t) ==
    /\ ConsideredInPass2(entry, t)
    /\ entry.current_status = "deferred_pending_match"
    /\ entry.last_alert_timestamp > t - MatchCutoffDays

\* mutant: no cutoff, every pending entry is attempted
IsAwaitingMatchAlways(entry, t) ==
    /\ ConsideredInPass2(entry, t)
    /\ entry.current_status = "deferred_pending_match"

\* lines 309-320: a deferred entry a match is attempted for
IsAwaitingMatch(entry, t) ==
    /\ ConsideredInPass2(entry, t)
    /\ ~(entry.current_status = "active" /\ Contains(entry.processing_tags, "newly_added"))
    /\ entry.current_status = "deferred_pending_match"
    /\ entry.last_alert_timestamp >= t - MatchCutoffDays

RECURSIVE TargetIds(_, _, _)
\* lines 300-308: potential_new_reschedule_targets, in the store's iteration order
TargetIds(db, t, k) ==
    IF k > Len(db) THEN <<>>
    ELSE (IF IsRescheduleTarget(db[k], t) THEN <<db[k].event_data.EventId>> ELSE <<>>)
         \o TargetIds(db, t, k + 1)

RECURSIVE AwaitingIds(_, _, _)
\* lines 300-327: deferred_events_awaiting_match, in the store's iteration order
AwaitingIds(db, t, k) ==
    IF k > Len(db) THEN <<>>
    ELSE (IF IsAwaitingMatch(db[k], t) THEN <<db[k].event_data.EventId>> ELSE <<>>)
         \o AwaitingIds(db, t, k + 1)

\* line 330: the sort key
TargetSortKey(db, event_id) ==
    LET dt == get_event_datetime(Entry(db, event_id).event_data)
    IN  IF dt = NoDT THEN MaxDT ELSE dt

RECURSIVE InsertSorted(_, _, _)
\* x put after every element whose key is <= its own (list.sort is stable)
InsertSorted(db, sorted, x) ==
    IF sorted = <<>> THEN <<x>>
    ELSE IF TargetSortKey(db, Head(sorted)) <= TargetSortKey(db, x)
         THEN <<Head(sorted)>> \o InsertSorted(db, Tail(sorted), x)
         ELSE <<x>> \o sorted

\* mutant: the targets are left in the store's order
SortTargetsUnsorted(db, ids) == ids

RECURSIVE SortTargets(_, _)
\* line 330: potential_new_reschedule_targets.sort(key=...)
SortTargets(db, ids) ==
    IF ids = <<>> THEN <<>>
    ELSE InsertSorted(db, SortTargets(db, SubSeq(ids, 1, Len(ids) - 1)), ids[Len(ids)])

\* lines 362-367: the comment test
CommentsMatch(deferred_data, new_data) ==
    Strip(OrEmpty(deferred_data.EventComment)) = Strip(OrEmpty(new_data.EventComment))

\* mutant: a target at the very date/time of the deferred entry passes
DateIsLaterOrSame(deferred_dt, new_data) ==
    LET new_event_dt == get_event_datetime(new_data)
    IN  new_event_dt # NoDT /\ new_event_dt >= deferred_dt

\* lines 357-360: the date test
DateIsLater(deferred_dt, new_data) ==
    LET new_event_dt == get_event_datetime(new_data)
    IN  new_event_dt # NoDT /\ new_event_dt > deferred_dt

\* mutant: a target already taken in this pass can be taken again
EligibleIgnoringTaken(deferred_data, new_data, matched_new_event_ids) ==
    /\ new_data.EventId # deferred_data.EventId
    /\ new_data.EventBodyName = deferred_data.EventBodyName
    /\ DateIsLater(get_event_datetime(deferred_data), new_data)
    /\ CommentsMatch(deferred_data, new_data)

\* lines 346-367: the tests a target passes to be taken by a deferred entry
Eligible(deferred_data, new_data, matched_new_event_ids) ==
    /\ new_data.EventId # deferred_data.EventId
    /\ new_data.EventId \notin matched_new_event_ids
    /\ new_data.EventBodyName = deferred_data.EventBodyName
    /\ DateIsLater(get_event_datetime(deferred_data), new_data)
    /\ CommentsMatch(deferred_data, new_data)

RECURSIVE FirstEligible(_, _, _, _, _)
\* lines 345-372: the scan of the sorted targets, stopping at the first one
\* that passes; 0 when none does
FirstEligible(db, deferred_data, targets, matched, k) ==
    IF k > Len(targets) THEN 0
    ELSE IF Eligible(deferred_data, Entry(db, targets[k]).event_data, matched)
         THEN targets[k]
         ELSE FirstEligible(db, deferred_data, targets, matched, k + 1)

\* mutant: the match re-alerts the original
MarkRescheduledAlerting(deferred_entry, best, t) ==
    [deferred_entry EXCEPT
        !.current_status = "deferred_rescheduled_internal",
        !.rescheduled_event_details_if_deferred =
            [ matched_event_id |-> best.event_data.EventId,
              new_date |-> best.event_data.EventDate,
              new_time |-> best.event_data.EventTime,
              new_location |-> best.event_data.EventLocation,
              match_timestamp |-> t ],
        !.last_alert_type = "rescheduled",
        !.last_alert_timestamp = t,
        !.processing_tags = Append(@, "became_rescheduled_match_found_for_original"),
        !.last_significant_change_timestamp = t]

\* lines 378-389: the update of the deferred original
MarkRescheduled(deferred_entry, best, t) ==
    [deferred_entry EXCEPT
        !.current_status = "deferred_rescheduled_internal",
        !.rescheduled_event_details_if_deferred =
            [ matched_event_id |-> best.event_data.EventId,
              new_date |-> best.event_data.EventDate,
              new_time |-> best.event_data.EventTime,
              new_location |-> best.event_data.EventLocation,
              match_timestamp |-> t ],
        !.processing_tags = Append(@, "became_rescheduled_match_found_for_original"),
        !.last_significant_change_timestamp = t]

\* mutant: the successor's link records its own date and time
MarkTargetWithOwnDate(best, deferred_entry, t) ==
    [best EXCEPT
        !.original_event_details_if_rescheduled =
            [ original_event_id |-> deferred_entry.event_data.EventId,
              original_date |-> best.event_data.EventDate,
              original_time |-> best.event_data.EventTime,
              original_status_when_deferred |-> "Deferred",
              match_timestamp |-> t ],
        !.processing_tags = Append(@, "newly_added_as_reschedule_target")]

\* mutant: the successor takes over the alert of its original
MarkTargetCopyingAlert(best, deferred_entry, t) ==
    [best EXCEPT
        !.original_event_details_if_rescheduled =
            [ original_event_id |-> deferred_entry.event_data.EventId,
              original_date |-> deferred_entry.event_data.EventDate,
              original_time |-> deferred_entry.event_data.EventTime,
              original_status_when_deferred |-> "Deferred",
              match_timestamp |-> t ],
        !.last_alert_type = deferred_entry.last_alert_type,
        !.last_alert_timestamp = deferred_entry.last_alert_timestamp,
        !.processing_tags = Append(@, "newly_added_as_reschedule_target")]

\* lines 392-400: the update of the reschedule target
MarkTarget(best, deferred_entry, t) ==
    [best EXCEPT
        !.original_event_details_if_rescheduled =
            [ original_event_id |-> deferred_entry.event_data.EventId,
              original_date |-> deferred_entry.event_data.EventDate,
              original_time |-> deferred_entry.event_data.EventTime,
              original_status_when_deferred |-> "Deferred",
              match_timestamp |-> t ],
        !.processing_tags = Append(@, "newly_added_as_reschedule_target")]

RECURSIVE MatchLoop(_, _, _, _, _)
\* lines 336-413: the loop over deferred_events_awaiting_match;
\* acc = [db, pairs, matched]
MatchLoop(awaiting, targets, acc, t, k) ==
    IF k > Len(awaiting) THEN acc
    ELSE
      LET deferred_event_id == awaiting[k]
          deferred_entry == Entry(acc.db, deferred_event_id)
          deferred_event_dt == get_event_datetime(deferred_entry.event_data)
          best_id == IF deferred_event_dt = NoDT THEN 0
                     ELSE FirstEligible(acc.db, deferred_entry.event_data,
                                        targets, acc.matched, 1)
          nxt ==
            IF best_id = 0 THEN acc
            ELSE LET best == Entry(acc.db, best_id)
                     di == IndexOf(acc.db, deferred_event_id)
                     bi == IndexOf(acc.db, best_id)
                 IN  [ db |-> [acc.db EXCEPT
                                  ![di] = MarkRescheduled(deferred_entry, best, t),
                                  ![bi] = MarkTarget(best, deferred_entry, t)],
                       pairs |-> Append(acc.pairs,
                                    [ deferred_event_id |-> deferred_event_id,
                                      rescheduled_to_event_id |-> best_id ]),
                       matched |-> acc.matched \cup {best_id} ]
      IN  MatchLoop(awaiting, targets, nxt, t, k + 1)

----------------------------------------------------------------------------
(* Pass 3 of process_event_changes: entries absent from the batch *)

\* mutant: a pending entry absent from the batch gives up waiting
TagVanishedExpiring(entry, processed) ==
    IF entry.event_data.EventId \in processed THEN entry
    ELSE IF entry.current_status = "active"
         THEN [entry EXCEPT !.processing_tags =
                                Append(@, "vanished_from_api_while_active")]
    ELSE IF entry.current_status = "deferred_pending_match"
         THEN [entry EXCEPT !.current_status = "deferred_no_match",
                            !.processing_tags =
                                Append(@, "vanished_from_api_while_deferred_pending")]
    ELSE entry

\* mutant: an active entry absent from the batch is retired
TagVanishedRetiring(entry, processed) ==
    IF entry.event_data.EventId \in processed THEN entry
    ELSE IF entry.current_status = "active"
         THEN [entry EXCEPT !.current_status = "vanished",
                            !.processing_tags =
                                Append(@, "vanished_from_api_while_active")]
    ELSE IF entry.current_status = "deferred_pending_match"
         THEN [entry EXCEPT !.processing_tags =
                                Append(@, "vanished_from_api_while_deferred_pending")]
    ELSE entry

\* lines 423-438
TagVanished(entry, processed) ==
    IF entry.event_data.EventId \in processed THEN entry
    ELSE IF entry.current_status = "active"
         THEN [entry EXCEPT !.processing_tags =
                                Append(@, "vanished_from_api_while_active")]
    ELSE IF entry.current_status = "deferred_pending_match"
         THEN [entry EXCEPT !.processing_tags =
                                Append(@, "vanished_from_api_while_deferred_pending")]
    ELSE entry

\* mutant: the entries absent from the batch are dropped from the store
Pass3DroppingVanished(db, processed) ==
    LET Fetched(entry) == entry.event_data.EventId \in processed
    IN  SelectSeq(db, Fetched)

Pass3(db, processed) == [i \in 1..Len(db) |-> TagVanished(db[i], processed)]

----------------------------------------------------------------------------
(* process_event_changes *)

process_event_changes(api_events, db, t) ==
    LET p1 == Pass1(api_events,
                    [db |-> db, added |-> <<>>, deferred |-> <<>>, processed |-> {}],
                    t, 1)
        targets == SortTargets(p1.db, TargetIds(p1.db, t, 1))
        awaiting == AwaitingIds(p1.db, t, 1)
        p2 == MatchLoop(awaiting, targets,
                        [db |-> p1.db, pairs |-> <<>>, matched |-> {}], t, 1)
    IN  [ db |-> Pass3(p2.db, p1.processed),
          newly_added |-> p1.added,
          newly_deferred |-> p1.deferred,
          newly_rescheduled_pairs |-> p2.pairs,
          after_pass1 |-> p1.db,
          targets |-> targets,
          awaiting |-> awaiting ]

----------------------------------------------------------------------------
(* generate_output_for_webpage: the four feeds of the web artifact.  Its     *)
(* clock reading is a day and a time of day; today_dt is the day's midnight. *)

\* datetime.min, the sort key of an update whose event has no date
MinDT == -1000000

\* line 516: a "new" alert counts as recent for two days
NewTagDays == 2

\* lines 558-561: the windows of the two update feeds, in days
ShortWindowDays == 7

LongWindowDays == 30

\* line 462: today_dt
TodayDt(day) == day * SlotsPerDay

\* lines 514-520: the tags of a card of the Upcoming feed
UserFacingTags(entry, day) ==
    (IF entry.last_alert_type = "new" /\ entry.last_alert_timestamp > day - NewTagDays
     THEN <<"new_hearing_tag">> ELSE <<>>)
    \o (IF entry.original_event_details_if_rescheduled # NoDetails
        THEN <<"rescheduled_hearing_tag">> ELSE <<>>)

\* mutant: every entry dated today or later is upcoming, whatever its status
IsUpcomingAnyStatus(entry, day) ==
    LET event_dt == get_event_datetime(entry.event_data)
    IN  event_dt # NoDT /\ event_dt >= TodayDt(day)

\* lines 511-512: active, and dated today or later
IsUpcoming(entry, day) ==
    LET event_dt == get_event_datetime(entry.event_data)
    IN  /\ entry.current_status = "active"
        /\ event_dt # NoDT
        /\ event_dt >= TodayDt(day)

RECURSIVE UpcomingItems(_, _, _)
\* lines 505-528: the cards of the Upcoming feed, in the store's order
UpcomingItems(db, day, k) ==
    IF k > Len(db) THEN <<>>
    ELSE (IF IsUpcoming(db[k], day)
          THEN << db[k] @@ [user_facing_tags |-> UserFacingTags(db[k], day)] >>
          ELSE <<>>)
         \o UpcomingItems(db, day, k + 1)

\* line 564: the sort key of a card
UpcomingSortKey(entry) ==
    LET dt == get_event_datetime(entry.event_data)
    IN  IF dt = NoDT THEN MaxDT ELSE dt

RECURSIVE InsertUpcoming(_, _)
\* x put after every card whose key is <= its own (list.sort is stable)
InsertUpcoming(sorted, x) ==
    IF sorted = <<>> THEN <<x>>
    ELSE IF UpcomingSortKey(Head(sorted)) <= UpcomingSortKey(x)
         THEN <<Head(sorted)>> \o InsertUpcoming(Tail(sorted), x)
         ELSE <<x>> \o sorted

\* mutant: the cards are left in the store's order
SortUpcomingUnsorted(items) == items

RECURSIVE SortUpcoming(_)
\* line 564: all_upcoming_hearings.sort(key=...)
SortUpcoming(items) ==
    IF items = <<>> THEN <<>>
    ELSE InsertUpcoming(SortUpcoming(SubSeq(items, 1, Len(items) - 1)),
                        items[Len(items)])

\* lines 466-475 and 541-545: an item of an update feed
UpdateItem(entry, type) ==
    [ type |-> type, alert_timestamp |-> entry.last_alert_timestamp, data |-> entry ]

\* lines 498-501 and 567-570: the sort key of an update
UpdateSortKey(item) ==
    LET dt == get_event_datetime(item.data.event_data)
    IN  << item.alert_timestamp, IF dt = NoDT THEN MinDT ELSE dt >>

\* tuple comparison a >= b
KeyAtLeast(a, b) == a[1] > b[1] \/ (a[1] = b[1] /\ a[2] >= b[2])

RECURSIVE InsertUpdate(_, _)
\* x put after every item whose key is >= its own (reverse=True keeps the
\* order of equal keys)
InsertUpdate(sorted, x) ==
    IF sorted = <<>> THEN <<x>>
    ELSE IF KeyAtLeast(UpdateSortKey(Head(sorted)), UpdateSortKey(x))
         THEN <<Head(sorted)>> \o InsertUpdate(Tail(sorted), x)
         ELSE <<x>> \o sorted

RECURSIVE SortUpdates(_)
\* lines 498-501, 571-572: sort(key=..., reverse=True)
SortUpdates(items) ==
    IF items = <<>> THEN <<>>
    ELSE InsertUpdate(SortUpdates(SubSeq(items, 1, Len(items) - 1)),
                      items[Len(items)])

\* mutant: an entry first seen deferred is listed as added and again as deferred
SinceLastRunItemsTwice(db, newly_added, newly_deferred) ==
    [k \in 1..Len(newly_added) |->
        UpdateItem(Entry(db, newly_added[k]), Entry(db, newly_added[k]).last_alert_type)]
    \o [k \in 1..Len(newly_deferred) |->
           UpdateItem(Entry(db, newly_deferred[k]), "deferred")]

\* lines 477-493: the updates of this run, before sorting
SinceLastRunItems(db, newly_added, newly_deferred) ==
    LET NotAdded(event_id) == ~Contains(newly_added, event_id)
        only_deferred == SelectSeq(newly_deferred, NotAdded)
    IN  [k \in 1..Len(newly_added) |->
            UpdateItem(Entry(db, newly_added[k]), Entry(db, newly_added[k]).last_alert_type)]
        \o [k \in 1..Len(only_deferred) |->
               UpdateItem(Entry(db, only_deferred[k]), "deferred")]

\* mutant: a "new" alert is shown whatever the date of its hearing
IncludeIn7And30AnyDate(entry, day) ==
    entry.last_alert_type = "new" \/ entry.last_alert_type = "deferred"

\* lines 549-554: whether an entry's alert is shown in the windowed feeds
IncludeIn7And30(entry, day) ==
    LET event_dt == get_event_datetime(entry.event_data)
    IN  \/ entry.last_alert_type = "new" /\ event_dt # NoDT /\ event_dt >= TodayDt(day)
        \/ entry.last_alert_type = "deferred"

RECURSIVE WindowItemsInBands(_, _, _, _)
\* mutant: the long window lists only what the short one does not
WindowItemsInBands(db, day, window, k) ==
    IF k > Len(db) THEN <<>>
    ELSE (IF /\ IncludeIn7And30(db[k], day)
             /\ day - db[k].last_alert_timestamp <= window
             /\ window = LongWindowDays =>
                    day - db[k].last_alert_timestamp > ShortWindowDays
          THEN << UpdateItem(db[k], db[k].last_alert_type) >>
          ELSE <<>>)
         \o WindowItemsInBands(db, day, window, k + 1)

RECURSIVE WindowItems(_, _, _, _)
\* lines 530-561: the items of a windowed feed, in the store's order
WindowItems(db, day, window, k) ==
    IF k > Len(db) THEN <<>>
    ELSE (IF IncludeIn7And30(db[k], day) /\ day - db[k].last_alert_timestamp <= window
          THEN << UpdateItem(db[k], db[k].last_alert_type) >>
          ELSE <<>>)
         \o WindowItems(db, day, window, k + 1)

generate_output_for_webpage(db, newly_added, newly_deferred, pairs, day, slot) ==
    [ generation_timestamp |-> TodayDt(day) + slot,
      upcoming_hearings |-> SortUpcoming(UpcomingItems(db, day, 1)),
      updates_since_last_run |->
          SortUpdates(SinceLastRunItems(db, newly_added, newly_deferred)),
      updates_last_7_days |-> SortUpdates(WindowItems(db, day, ShortWindowDays, 1)),
      updates_last_30_days |-> SortUpdates(WindowItems(db, day, LongWindowDays, 1)),
      source_newly_added_ids_count |-> Len(newly_added),
      source_newly_deferred_ids_count |-> Len(newly_deferred),
      source_newly_rescheduled_pairs_count |-> Len(pairs) ]

----------------------------------------------------------------------------
(* The remote calendar and what a fetch can return *)

\* EventAgendaFile of a hearing whose agenda is not published yet
NoAgenda == "None"

ApiEvent(id, date, time, body, comment, label, location) ==
    [ EventId |-> id, EventDate |-> date, EventTime |-> time,
      EventLocation |-> location, EventBodyName |-> body,
      EventAgendaStatusName |-> label, EventComment |-> comment,
      EventAgendaFile |-> NoAgenda ]

Labels == {"Final", "Deferred"}

Locations == {"Room 1", "Room 2"}

\* days between two consecutive runs: on and just past the 30-day cutoff
Steps == {MatchCutoffDays, MatchCutoffDays + 1}

\* the first run sets the origin of the clock
StepsAt(n) == IF n = 0 THEN {MatchCutoffDays} ELSE Steps

\* one committee, three hearings on successive days, the same comment
Calendar ==
    << ApiEvent(1, 1, 1, "A", <<"x">>, "Final", "Room 1"),
       ApiEvent(2, 2, 1, "A", <<"x">>, "Final", "Room 1"),
       ApiEvent(3, 3, 1, "A", <<"x">>, "Final", "Room 1") >>

RECURSIVE Ascending(_)
\* the elements of a set of numbers, smallest first
Ascending(S) ==
    IF S = {} THEN <<>>
    ELSE LET m == CHOOSE x \in S : \A y \in S : x <= y
         IN  <<m>> \o Ascending(S \ {m})

\* the rooms the source may name at run n + 1: the first fetch fixes the room
\* the later ones may change
LocationsAt(n) == IF n = 0 THEN {"Room 1"} ELSE Locations

\* the batches a fetch of calendar src can return at run n + 1: any non-empty
\* selection of its events, in calendar order, each with the status label the
\* source reports for it at the time, all in the room the source names at the
\* time
Fetches(src, n) ==
    { [k \in 1..Cardinality(S) |->
          [src[Ascending(S)[k]] EXCEPT
              !.EventAgendaStatusName = lab[Ascending(S)[k]],
              !.EventLocation = loc]] :
      S \in (SUBSET (1..Len(src))) \ {{}},
      lab \in [1..Len(src) -> Labels],
      loc \in LocationsAt(n) }

\* calendars for the matching pass: two events with every combination of
\* date, time, committee, comment and label, or three events of one committee
\* and one comment with every combination of date, time and label
MatchDates == {1, 2}

MatchTimes == {NoTime, 1}

MatchBodies == {"A", "B"}

MatchComments == {NoneStr, <<>>, <<"x">>, <<"x", " ">>}

PairCalendars ==
    { << ApiEvent(1, d1, t1, b1, c1, l1, "Room 1"),
         ApiEvent(2, d2, t2, b2, c2, l2, "Room 1") >> :
      d1 \in MatchDates, t1 \in MatchTimes, b1 \in MatchBodies,
      c1 \in MatchComments, l1 \in Labels,
      d2 \in MatchDates, t2 \in MatchTimes, b2 \in MatchBodies,
      c2 \in MatchComments, l2 \in Labels }

TripleCalendars ==
    { << ApiEvent(1, d1, t1, "A", <<"x">>, l1, "Room 1"),
         ApiEvent(2, d2, t2, "A", <<"x">>, l2, "Room 1"),
         ApiEvent(3, d3, t3, "A", <<"x">>, l3, "Room 1") >> :
      d1 \in MatchDates, t1 \in MatchTimes, l1 \in Labels,
      d2 \in MatchDates, t2 \in MatchTimes, l2 \in Labels,
      d3 \in MatchDates, t3 \in MatchTimes, l3 \in Labels }

MatchCalendars == PairCalendars \cup TripleCalendars

----------------------------------------------------------------------------
(* main *)

NoRun == [kind |-> "none"]

\* OUTPUT_EVENTS_FILE before any run has written it
NoArtifact == [none |-> TRUE]

\* the processes that may run main(); the scheduler is to start one at a time
Procs == {1, 2}

Idle == [pc |-> "idle"]

NoneInFlight == [p \in Procs |-> Idle]

\* lines 619-635: a whole run of main() with no other run under way and no
\* fault: reconcile the fetched batch, save the store and write the web
\* artifact, on day t at time of day slot
RunAt(batch, t, slot) ==
    LET r == process_event_changes(batch, seen_events_db, t)
    IN  /\ seen_events_db' = r.db
        /\ now' = t
        /\ runs' = runs + 1
        /\ last' = [ kind |-> "run", time |-> t, slot |-> slot, batch |-> batch,
                     prior |-> seen_events_db, result |-> r,
                     repeated |-> last.kind = "run" /\ last.batch = batch ]
        /\ web_file' = generate_output_for_webpage(
                           r.db, r.newly_added, r.newly_deferred,
                           r.newly_rescheduled_pairs, t, slot)
        /\ UNCHANGED <<source, inflight>>

\* a run at midnight of day t
RunOn(batch, t) == RunAt(batch, t, 0)

\* a run whose fetch returns some selection of the calendar
Run ==
    /\ runs < MaxRuns
    /\ \E batch \in Fetches(source, runs), dt \in StepsAt(runs) : RunOn(batch, now + dt)

\* a run whose fetch returns the whole calendar as it stands
RunFull ==
    /\ runs < MaxRuns
    /\ \E dt \in StepsAt(runs) : RunOn(source, now + dt)

\* the agenda links the source may serve: none yet, or the published file
AgendaFiles == {NoAgenda, "agenda.pdf"}

\* the batches a fetch of the whole calendar src can return at run n + 1: every
\* event with the label the source reports for it, all with the agenda link
\* and in the room the source gives at the time
FetchesWithAgenda(src, n) ==
    { [k \in 1..Len(b) |-> [b[k] EXCEPT !.EventAgendaFile = agenda]] :
      b \in {f \in Fetches(src, n) : Len(f) = Len(src)},
      agenda \in AgendaFiles }

\* a run whose fetch returns the whole calendar with its agenda links
RunAgenda ==
    /\ runs < MaxRuns
    /\ \E batch \in FetchesWithAgenda(source, runs), dt \in StepsAt(runs) :
          RunOn(batch, now + dt)

\* a calendar around the days of the runs: a hearing on the day of the first
\* run, one on the 30th day after it and one, with no time set, on the 31st
FeedCalendar ==
    << ApiEvent(1, MatchCutoffDays, 1, "A", <<"x">>, "Final", "Room 1"),
       ApiEvent(2, 2 * MatchCutoffDays, 1, "A", <<"x">>, "Final", "Room 1"),
       ApiEvent(3, 2 * MatchCutoffDays + 1, NoTime, "A", <<"x">>, "Final", "Room 1") >>

\* the batches a fetch of the whole calendar src can return: every event with
\* the label the source reports for it at the time
FeedFetches(src) ==
    { [k \in 1..Len(src) |-> [src[k] EXCEPT !.EventAgendaStatusName = lab[k]]] :
      lab \in [1..Len(src) -> Labels] }

\* the times of day a run can start at
SlotsOfDay == 0..(SlotsPerDay - 1)

\* a run at any time of day whose fetch returns the whole calendar
RunFeed ==
    /\ runs < MaxRuns
    /\ \E batch \in FeedFetches(source), dt \in StepsAt(runs), slot \in SlotsOfDay :
          RunAt(batch, now + dt, slot)

\* a calendar for the update windows, not served in date order: two hearings
\* that are past a week after the first run, on its day and on the next, and
\* two a month after it
WindowCalendar ==
    << ApiEvent(1, 2 * MatchCutoffDays + 1, 1, "A", <<"x">>, "Final", "Room 1"),
       ApiEvent(2, MatchCutoffDays, 1, "A", <<"x">>, "Final", "Room 1"),
       ApiEvent(3, MatchCutoffDays + 1, 1, "A", <<"x">>, "Final", "Room 1"),
       ApiEvent(4, 2 * MatchCutoffDays, 1, "A", <<"x">>, "Final", "Room 1") >>

\* days between two consecutive runs: on and just past the edge of each of
\* the two update windows
WindowSteps ==
    {ShortWindowDays, ShortWindowDays + 1, LongWindowDays, LongWindowDays + 1}

\* a run a window's length, or a day more, after the previous one, whose fetch
\* returns the whole calendar
RunWindow ==
    /\ runs < MaxRuns
    /\ \E batch \in FeedFetches(source),
          dt \in (IF runs = 0 THEN {MatchCutoffDays} ELSE WindowSteps) :
          RunOn(batch, now + dt)

Init ==
    /\ seen_events_db = <<>>
    /\ now = 0
    /\ runs = 0
    /\ source = Calendar
    /\ last = NoRun
    /\ web_file = NoArtifact
    /\ inflight = NoneInFlight

Next == Run

Spec == Init /\ [][Next]_vars

\* runs enough for a match, a reversion, and a second deferral and match
RelinkRuns == MaxRuns + 1

\* a run 30 days after the previous one whose fetch returns any part of the
\* calendar under any label, the rooms unchanged
RunRelink ==
    /\ runs < RelinkRuns
    /\ \E batch \in Fetches(source, 0) : RunOn(batch, now + MatchCutoffDays)

NextRelink == RunRelink

SpecRelink == Init /\ [][NextRelink]_vars

\* the first two hearings of the calendar only, fetched in any part and under
\* any label
InitPair ==
    /\ seen_events_db = <<>>
    /\ now = 0
    /\ runs = 0
    /\ source = SubSeq(Calendar, 1, 2)
    /\ last = NoRun
    /\ web_file = NoArtifact
    /\ inflight = NoneInFlight

NextPair == Run

SpecPair == InitPair /\ [][NextPair]_vars

\* the two-hearing calendar over the longer sequence of runs
SpecLong == InitPair /\ [][NextRelink]_vars

InitMatch ==
    /\ seen_events_db = <<>>
    /\ now = 0
    /\ runs = 0
    /\ source \in MatchCalendars
    /\ last = NoRun
    /\ web_file = NoArtifact
    /\ inflight = NoneInFlight

NextMatch == RunFull

SpecMatch == InitMatch /\ [][NextMatch]_vars

InitFeed ==
    /\ seen_events_db = <<>>
    /\ now = 0
    /\ runs = 0
    /\ source = FeedCalendar
    /\ last = NoRun
    /\ web_file = NoArtifact
    /\ inflight = NoneInFlight

NextFeed == RunFeed

SpecFeed == InitFeed /\ [][NextFeed]_vars

\* calendars with defective records: two hearings of one committee, each with
\* a date on or after the day of the first run, no date, or a date that does
\* not parse, and a time that parses or not
DefectDates == {NoDate, BadDate, MatchCutoffDays, MatchCutoffDays + 1}

DefectTimes == {1, BadTime}

DefectCalendars ==
    { << ApiEvent(1, d1, t1, "A", <<"x">>, l1, "Room 1"),
         ApiEvent(2, d2, t2, "A", <<"x">>, l2, "Room 1") >> :
      d1 \in DefectDates, t1 \in DefectTimes, l1 \in Labels,
      d2 \in DefectDates, t2 \in DefectTimes, l2 \in Labels }

InitDefect ==
    /\ seen_events_db = <<>>
    /\ now = 0
    /\ runs = 0
    /\ source \in DefectCalendars
    /\ last = NoRun
    /\ web_file = NoArtifact
    /\ inflight = NoneInFlight

NextDefect == RunFull

SpecDefect == InitDefect /\ [][NextDefect]_vars

InitWindow ==
    /\ seen_events_db = <<>>
    /\ now = 0
    /\ runs = 0
    /\ source = WindowCalendar
    /\ last = NoRun
    /\ web_file = NoArtifact
    /\ inflight = NoneInFlight

NextWindow == RunWindow

SpecWindow == InitWindow /\ [][NextWindow]_vars

NextAgenda == RunAgenda

SpecAgenda == Init /\ [][NextAgenda]_vars

----------------------------------------------------------------------------
(* main() line by line: a run loads the store, fetches, reconciles in        *)
(* memory, saves the store and writes the web artifact, as separate steps.   *)
(* Several runs may be under way, and the save may fail.                     *)

\* HISTORY_FILE does not exist
MissingFile == << [missing |-> TRUE] >>

\* HISTORY_FILE holds what json.load rejects: open(.., 'w') has truncated it
\* and json.dump has not, or not fully, written it
CorruptFile == << [corrupt |-> TRUE] >>

\* mutant: an unparseable file is replaced by a stale copy of the store
load_seen_events_from_backup(file) ==
    IF file = MissingFile THEN <<>>
    ELSE IF file = CorruptFile
         THEN process_event_changes(SubSeq(Calendar, 1, 1), <<>>, 0).db
    ELSE file

\* lines 57-70: load_seen_events
load_seen_events(file) ==
    IF file = MissingFile THEN <<>>
    ELSE IF file = CorruptFile THEN <<>>
    ELSE file

\* a record the API served without its EventId
WithoutId(obj) == [f \in (DOMAIN obj) \ {"EventId"} |-> obj[f]]

\* line 208: current_event_obj['EventId'] raises KeyError for some record
RaisesKeyError(api_events) ==
    \E k \in 1..Len(api_events) : "EventId" \notin DOMAIN api_events[k]

\* mutant: the artifact of an empty fetch carries no error field
EmptyFetchArtifactSilent(day, slot) ==
    [ updates_since_last_run |-> <<>>,
      updates_last_7_days |-> <<>>,
      updates_last_30_days |-> <<>>,
      upcoming_hearings |-> <<>>,
      generation_timestamp |-> TodayDt(day) + slot ]

\* lines 609-612: the artifact of a run whose fetch returned nothing
EmptyFetchArtifact(day, slot) ==
    [ updates_since_last_run |-> <<>>,
      updates_last_7_days |-> <<>>,
      updates_last_30_days |-> <<>>,
      upcoming_hearings |-> <<>>,
      generation_timestamp |-> TodayDt(day) + slot,
      error |-> "No events fetched from API." ]

\* the first two hearings of the calendar
MainCalendar == SubSeq(Calendar, 1, 2)

\* what a fetch can return: nothing, any selection of the calendar under any
\* labels, or the whole calendar with one record lacking its EventId
MainFetches(src) ==
    {<<>>}
    \cup Fetches(src, 0)
    \cup { [src EXCEPT ![k] = WithoutId(src[k])] : k \in 1..Len(src) }

\* the faults of save_seen_events: open(HISTORY_FILE, 'w') raises, json.dump
\* raises
SaveFaults == {"open", "dump"}

\* line 600: seen_events = load_seen_events()
Load(p) ==
    /\ inflight[p].pc = "idle"
    /\ runs < MaxRuns
    /\ runs' = runs + 1
    /\ inflight' = [inflight EXCEPT ![p] =
                       [ pc |-> "loaded",
                         seen |-> load_seen_events(seen_events_db) ]]
    /\ UNCHANGED <<seen_events_db, now, source, last, web_file>>

\* lines 603-620: the fetch and, unless it returned nothing, the
\* reconciliation of the batch with the loaded store, in memory; a KeyError
\* ends the run there
FetchAndReconcile(p, fetches) ==
    /\ inflight[p].pc = "loaded"
    /\ \E batch \in fetches :
          LET t == now + 1
              seen == inflight[p].seen
          IN  /\ now' = t
              /\ IF batch = <<>>
                 THEN /\ inflight' = [inflight EXCEPT ![p] =
                             [ pc |-> "save", kind |-> "empty", seen |-> seen,
                               batch |-> batch, time |-> t, to_save |-> seen ]]
                      /\ UNCHANGED last
                 ELSE IF RaisesKeyError(batch)
                 THEN /\ inflight' = [inflight EXCEPT ![p] = Idle]
                      /\ last' = [ kind |-> "crashed", time |-> t, batch |-> batch,
                                   prior |-> seen, proc |-> p ]
                 ELSE LET r == process_event_changes(batch, seen, t)
                      IN  /\ inflight' = [inflight EXCEPT ![p] =
                                 [ pc |-> "save", kind |-> "run", seen |-> seen,
                                   batch |-> batch, time |-> t, result |-> r,
                                   to_save |-> r.db ]]
                          /\ UNCHANGED last
    /\ UNCHANGED <<seen_events_db, runs, source, web_file>>

\* line 76: open(HISTORY_FILE, 'w') truncates the file, or raises and leaves
\* it; the exception is logged by line 80 and the run goes on
SaveOpen(p, faults) ==
    /\ inflight[p].pc = "save"
    /\ \/ /\ seen_events_db' = CorruptFile
          /\ inflight' = [inflight EXCEPT ![p].pc = "dump"]
       \/ /\ "open" \in faults
          /\ inflight' = [inflight EXCEPT ![p] =
                             [pc |-> "output", saved |-> "not written"] @@ @]
          /\ UNCHANGED seen_events_db
    /\ UNCHANGED <<now, runs, source, last, web_file>>

\* mutant: the write stores the state as the run loaded it
SaveDumpStoringLoaded(p, faults) ==
    /\ inflight[p].pc = "dump"
    /\ seen_events_db' = inflight[p].seen
    /\ inflight' = [inflight EXCEPT ![p] =
                       [pc |-> "output", saved |-> "written"] @@ @]
    /\ UNCHANGED <<now, runs, source, last, web_file>>

\* line 77: json.dump writes the store, or raises part-way; the exception is
\* logged by line 80 and the run goes on
SaveDump(p, faults) ==
    /\ inflight[p].pc = "dump"
    /\ \/ /\ seen_events_db' = inflight[p].to_save
          /\ inflight' = [inflight EXCEPT ![p] =
                             [pc |-> "output", saved |-> "written"] @@ @]
       \/ /\ "dump" \in faults
          /\ inflight' = [inflight EXCEPT ![p] =
                             [pc |-> "output", saved |-> "partly written"] @@ @]
          /\ UNCHANGED seen_events_db
    /\ UNCHANGED <<now, runs, source, last, web_file>>

\* lines 609-615 and 625-635: the web artifact is written and the run ends
WriteOutput(p) ==
    /\ inflight[p].pc = "output"
    /\ LET run == inflight[p]
       IN  /\ web_file' =
                 IF run.kind = "empty"
                 THEN EmptyFetchArtifact(run.time, 0)
                 ELSE generate_output_for_webpage(
                          run.result.db, run.result.newly_added,
                          run.result.newly_deferred,
                          run.result.newly_rescheduled_pairs, run.time, 0)
           /\ last' = [ kind |-> run.kind, time |-> run.time, slot |-> 0,
                        batch |-> run.batch, prior |-> run.seen,
                        saved |-> run.saved, to_save |-> run.to_save,
                        proc |-> p, repeated |-> FALSE ]
                      @@ (IF run.kind = "run" THEN [result |-> run.result]
                          ELSE [result |-> [db |-> run.seen]])
    /\ inflight' = [inflight EXCEPT ![p] = Idle]
    /\ UNCHANGED <<seen_events_db, now, runs, source>>

\* one process, started again only when its run has ended; the store may be
\* missing or unreadable at the start
InitMain ==
    /\ seen_events_db \in {MissingFile, CorruptFile}
    /\ now = 0
    /\ runs = 0
    /\ source = MainCalendar
    /\ last = NoRun
    /\ web_file = NoArtifact
    /\ inflight = NoneInFlight

NextMain ==
    \/ Load(1)
    \/ FetchAndReconcile(1, MainFetches(source))
    \/ SaveOpen(1, SaveFaults)
    \/ SaveDump(1, SaveFaults)
    \/ WriteOutput(1)

SpecMain == InitMain /\ [][NextMain]_vars

\* the scheduler's second slot is absent: the process is never started
Unscheduled == [pc |-> "unscheduled"]

\* each fetch serves one record of the calendar
OverlapFetches(src) == {<< src[k] >> : k \in 1..Len(src)}

\* lines 593-648 take no lock: nothing but the external scheduler keeps a
\* second process from starting main() while the first is under way. The
\* scheduler either has one slot, and starts a run when the previous one has
\* ended, or has two, and starts them independently.
InitOverlap ==
    /\ seen_events_db = MissingFile
    /\ now = 0
    /\ runs = 0
    /\ source = MainCalendar
    /\ last = NoRun
    /\ web_file = NoArtifact
    /\ inflight \in {NoneInFlight, [NoneInFlight EXCEPT ![2] = Unscheduled]}

NextOverlap ==
    \E p \in Procs :
        \/ Load(p)
        \/ FetchAndReconcile(p, OverlapFetches(source))
        \/ SaveOpen(p, SaveFaults)
        \/ SaveDump(p, SaveFaults)
        \/ WriteOutput(p)

SpecOverlap == InitOverlap /\ [][NextOverlap]_vars

----------------------------------------------------------------------------
(* LegistarAPI.get_events, src/legistar_api.py *)

\* the events endpoint holds these records, in this order, during a call
PagedSource(n) ==
    [k \in 1..n |-> ApiEvent(k, k, 1, "A", <<"x">>, "Final", "Room 1")]

\* the page sizes a caller passes as top
Tops == 0..MaxTop

\* the page a source that honours $top and $skip serves
ServePage(src, top, skip) ==
    IF skip >= Len(src) THEN <<>>
    ELSE SubSeq(src, skip + 1, IF skip + top < Len(src) THEN skip + top ELSE Len(src))

\* mutant: a page that fills the page size ends the loop as well
IsLastPageWhenFull(page_events, max_per_page) == Len(page_events) <= max_per_page

\* line 230: fewer events than the page size means it is the last page
IsLastPage(page_events, max_per_page) == Len(page_events) < max_per_page

\* src/legistar_api.py lines 149-151: the call and its local variables
CallGetEvents(p, tops) ==
    /\ inflight[p].pc = "idle"
    /\ runs < MaxRuns
    /\ runs' = runs + 1
    /\ \E top \in tops :
          inflight' = [inflight EXCEPT ![p] =
                          [ pc |-> "paging", all_events |-> <<>>, current_skip |-> 0,
                            max_per_page |-> top, requests |-> 0, failed |-> FALSE ]]
    /\ UNCHANGED <<seen_events_db, now, source, last, web_file>>

\* src/legistar_api.py lines 153-237: one turn of the loop, the request
\* answered with a page or with an error
GetPage(p) ==
    /\ inflight[p].pc = "paging"
    /\ LET call == inflight[p]
           page_events == ServePage(source, call.max_per_page, call.current_skip)
       IN  \/ /\ page_events # <<>>
              /\ inflight' = [inflight EXCEPT ![p] =
                     [call EXCEPT
                        !.requests = @ + 1,
                        !.all_events = @ \o page_events,
                        !.pc = IF IsLastPage(page_events, call.max_per_page)
                               THEN "return" ELSE "paging",
                        !.current_skip =
                            IF IsLastPage(page_events, call.max_per_page)
                            THEN @ ELSE @ + Len(page_events)]]
           \/ /\ page_events = <<>>
              /\ inflight' = [inflight EXCEPT ![p] =
                     [call EXCEPT !.requests = @ + 1, !.pc = "return"]]
           \/ inflight' = [inflight EXCEPT ![p] =
                     [call EXCEPT !.requests = @ + 1, !.pc = "return",
                                  !.failed = TRUE]]
    /\ UNCHANGED <<seen_events_db, now, runs, source, last, web_file>>

\* src/legistar_api.py line 239: return all_events
ReturnEvents(p) ==
    /\ inflight[p].pc = "return"
    /\ last' = [ kind |-> "fetched", events |-> inflight[p].all_events,
                 top |-> inflight[p].max_per_page,
                 requests |-> inflight[p].requests,
                 failed |-> inflight[p].failed ]
    /\ inflight' = [inflight EXCEPT ![p] = Idle]
    /\ UNCHANGED <<seen_events_db, now, runs, source, web_file>>

InitPages ==
    /\ seen_events_db = <<>>
    /\ now = 0
    /\ runs = 0
    /\ source \in {PagedSource(n) : n \in 0..MaxRecords}
    /\ last = NoRun
    /\ web_file = NoArtifact
    /\ inflight = NoneInFlight

NextPages ==
    \/ CallGetEvents(1, Tops)
    \/ GetPage(1)
    \/ ReturnEvents(1)

\* the loop is sequential code of a running process: it takes its next step
SpecPages == InitPages /\ [][NextPages]_vars /\ WF_vars(NextPages)

----------------------------------------------------------------------------
(* The last run, as the properties below read it *)

Ran == last.kind = "run"

Before(id) == Entry(last.prior, id)

AfterPass1(id) == Entry(last.result.after_pass1, id)

After(id) == Entry(seen_events_db, id)

AlertOf(e) == <<e.last_alert_type, e.last_alert_timestamp>>

PairsOfRun == Range(last.result.newly_rescheduled_pairs)

PairedOriginals == {p.deferred_event_id : p \in PairsOfRun}

PairedTargets == {p.rescheduled_to_event_id : p \in PairsOfRun}

HasLink(details) == details # NoDetails

----------------------------------------------------------------------------
\* C1: for every match made by the matching pass, the deferred original's and
\* the matched successor's last_alert_type and last_alert_timestamp after the
\* run equal their values right before the matching pass (after Pass 1).
C1_MatchAlertStability ==
    Ran => \A p \in PairsOfRun :
              /\ AlertOf(After(p.deferred_event_id)) =
                     AlertOf(AfterPass1(p.deferred_event_id))
              /\ AlertOf(After(p.rescheduled_to_event_id)) =
                     AlertOf(AfterPass1(p.rescheduled_to_event_id))

\* a match of an original that was deferred by an earlier run
C1_Witness ==
    /\ Ran
    /\ \E p \in PairsOfRun :
          /\ After(p.deferred_event_id).last_alert_type = "deferred"
          /\ After(p.deferred_event_id).last_alert_timestamp < last.time
          /\ After(p.deferred_event_id).current_status = "deferred_rescheduled_internal"
          /\ After(p.rescheduled_to_event_id).last_alert_type = "new"

----------------------------------------------------------------------------
\* The status changes of one run, step by step: Pass 1 handles each identity
\* of the batch once, the matching pass changes an entry at most once, Pass 3
\* changes no status.
StatusSteps ==
    { <<id, Before(id).current_status, AfterPass1(id).current_status, "pass1">> :
          id \in Ids(last.prior) }
    \cup
    { <<id, AfterPass1(id).current_status, After(id).current_status, "pass2">> :
          id \in Ids(seen_events_db) }

StatusChanges == { s \in StatusSteps : s[2] # s[3] }

SpecEdges ==
    { <<"active", "deferred_pending_match">>,
      <<"deferred_pending_match", "active">>,
      <<"deferred_pending_match", "deferred_rescheduled_internal">>,
      <<"deferred_pending_match", "deferred_no_match">> }

MatchOnlyEdge ==
    \A s \in StatusChanges :
        s[3] = "deferred_rescheduled_internal" =>
            s[4] = "pass2" /\ s[1] \in PairedOriginals

\* C2 as stated: every status change follows one of the four edges
\* Active->DeferredPendingMatch, DeferredPendingMatch->Active,
\* DeferredPendingMatch->DeferredRescheduled, DeferredPendingMatch->DeferredNoMatch,
\* and DeferredPendingMatch->DeferredRescheduled only in a step that matches.
C2_OnlyFourEdges ==
    Ran => /\ \A s \in StatusChanges : <<s[2], s[3]>> \in SpecEdges
           /\ MatchOnlyEdge

\* C2 as amended: every status change follows one of the four edges or the
\* edge DeferredRescheduled->Active (a matched original whose source label is
\* no longer Deferred); DeferredPendingMatch->DeferredRescheduled is taken
\* only by a successful match.
C2_Edges ==
    Ran => /\ \A s \in StatusChanges :
                <<s[2], s[3]>> \in
                    SpecEdges \cup {<<"deferred_rescheduled_internal", "active">>}
           /\ MatchOnlyEdge

\* a run that reverts a matched original to Active and defers another entry
C2_Witness ==
    /\ Ran
    /\ \E s \in StatusChanges :
          <<s[2], s[3]>> = <<"deferred_rescheduled_internal", "active">>
    /\ \E s \in StatusChanges :
          <<s[2], s[3]>> = <<"active", "deferred_pending_match">>

----------------------------------------------------------------------------
SnapshotRefreshed(id) ==
    /\ id \in Ids(last.prior)
    /\ After(id).event_data # Before(id).event_data
    /\ After(id).current_status = Before(id).current_status

\* C3: the alert fields of a tracked entry change only when it takes the edge
\* Active->DeferredPendingMatch (or DeferredPendingMatch->DeferredNoMatch) or is
\* created; the matching pass and Pass 3 never change them; a run that leaves
\* the entry's status as it was leaves both alert fields as they were.
C3_AlertOnlyOnEdges ==
    Ran =>
      /\ \A id \in Ids(last.prior) :
            /\ AlertOf(AfterPass1(id)) # AlertOf(Before(id)) =>
                  <<Before(id).current_status, AfterPass1(id).current_status>> \in
                      { <<"active", "deferred_pending_match">>,
                        <<"deferred_pending_match", "deferred_no_match">> }
            /\ Before(id).current_status = After(id).current_status =>
                  AlertOf(After(id)) = AlertOf(Before(id))
      /\ \A id \in Ids(seen_events_db) : AlertOf(After(id)) = AlertOf(AfterPass1(id))

\* a run that refreshed the snapshot of a deferred entry and of an active
\* entry, both alerted by an earlier run, without changing their status
C3_Witness ==
    /\ Ran
    /\ \E id \in Ids(last.prior) :
          /\ SnapshotRefreshed(id)
          /\ After(id).current_status = "deferred_pending_match"
          /\ After(id).last_alert_timestamp < last.time
    /\ \E id \in Ids(last.prior) :
          /\ SnapshotRefreshed(id)
          /\ After(id).current_status = "active"

----------------------------------------------------------------------------
\* position of x in the sequence s, 0 when absent
PosIn(s, x) == IF Contains(s, x) THEN CHOOSE i \in 1..Len(s) : s[i] = x ELSE 0

\* the target passes the tests of the deferred entry, consumption aside
StaticallyEligible(deferred_id, target_id) ==
    /\ get_event_datetime(AfterPass1(deferred_id).event_data) # NoDT
    /\ Eligible(AfterPass1(deferred_id).event_data, AfterPass1(target_id).event_data, {})

LinkedSuccessor(entry) == entry.rescheduled_event_details_if_deferred.matched_event_id

\* C4: in every reachable state no successor is linked from more than one
\* deferred original; within one matching pass no candidate and no deferred
\* entry is in two pairs, and a candidate goes to the first deferred entry in
\* iteration order that takes it: an earlier deferred entry for which the
\* candidate passes the tests has taken a candidate sorted before it.
C4_OneToOneLinks ==
    /\ \A i, j \in 1..Len(seen_events_db) :
          /\ i # j
          /\ HasLink(seen_events_db[i].rescheduled_event_details_if_deferred)
          /\ HasLink(seen_events_db[j].rescheduled_event_details_if_deferred)
          => LinkedSuccessor(seen_events_db[i]) # LinkedSuccessor(seen_events_db[j])
    /\ Ran =>
          LET pairs == last.result.newly_rescheduled_pairs
              awaiting == last.result.awaiting
              targets == last.result.targets
          IN  /\ \A k1, k2 \in 1..Len(pairs) :
                    k1 # k2 =>
                      /\ pairs[k1].rescheduled_to_event_id # pairs[k2].rescheduled_to_event_id
                      /\ pairs[k1].deferred_event_id # pairs[k2].deferred_event_id
              /\ \A p \in PairsOfRun : \A d \in Range(awaiting) :
                    /\ PosIn(awaiting, d) < PosIn(awaiting, p.deferred_event_id)
                    /\ StaticallyEligible(d, p.rescheduled_to_event_id)
                    => \E q \in PairsOfRun :
                          /\ q.deferred_event_id = d
                          /\ PosIn(targets, q.rescheduled_to_event_id) <
                                 PosIn(targets, p.rescheduled_to_event_id)

\* two deferred entries compete for one candidate that passes the tests of
\* both; the first in iteration order has it and the second is left unmatched
C4_Witness ==
    /\ Ran
    /\ \E p \in PairsOfRun : \E d \in Range(last.result.awaiting) :
          /\ d # p.deferred_event_id
          /\ StaticallyEligible(d, p.rescheduled_to_event_id)
          /\ After(d).current_status = "deferred_pending_match"
          /\ LinkedSuccessor(After(p.deferred_event_id)) = p.rescheduled_to_event_id

----------------------------------------------------------------------------
\* C5: idempotence. A run on the batch the previous run reconciled adds no
\* id, defers no id, makes no pair, and leaves every entry's status,
\* last_alert_type and last_alert_timestamp as the first pass left them.
C5_Idempotence ==
    Ran /\ last.repeated =>
        /\ last.result.newly_added = <<>>
        /\ last.result.newly_deferred = <<>>
        /\ last.result.newly_rescheduled_pairs = <<>>
        /\ Ids(seen_events_db) = Ids(last.prior)
        /\ \A id \in Ids(last.prior) :
              /\ After(id).current_status = Before(id).current_status
              /\ AlertOf(After(id)) = AlertOf(Before(id))

\* the second pass over a batch whose first pass made a match and left another
\* deferred entry pending, which the second pass still attempts to match
C5_Witness ==
    /\ Ran /\ last.repeated
    /\ \E id \in Ids(last.prior) :
          Before(id).current_status = "deferred_rescheduled_internal"
    /\ \E id \in Range(last.result.awaiting) :
          Before(id).current_status = "deferred_pending_match"

----------------------------------------------------------------------------
(* The 30-day cutoff *)

PendingAtMatching == { id \in Ids(seen_events_db) :
                          AfterPass1(id).current_status = "deferred_pending_match" }

AlertAge(id) == last.time - AfterPass1(id).last_alert_timestamp

PastCutoff(id) == AlertAge(id) > MatchCutoffDays

HasEligibleTarget(id) ==
    \E c \in Range(last.result.targets) : StaticallyEligible(id, c)

TransitionedToNoMatch ==
    { id \in Ids(seen_events_db) :
        /\ After(id).current_status = "deferred_no_match"
        /\ id \in Ids(last.prior) => Before(id).current_status # "deferred_no_match" }

StillDeferredPastCutoff(id) ==
    /\ id \in Ids(last.prior)
    /\ Before(id).current_status = "deferred_pending_match"
    /\ AfterPass1(id).current_status = "deferred_pending_match"
    /\ last.time - Before(id).last_alert_timestamp > MatchCutoffDays

----------------------------------------------------------------------------
(* The candidates of the matching pass *)

UnlinkedActiveWithDate(id) ==
    /\ AfterPass1(id).current_status = "active"
    /\ ~HasLink(AfterPass1(id).original_event_details_if_rescheduled)
    /\ get_event_datetime(AfterPass1(id).event_data) # NoDT

\* C8 as stated: an unlinked Active entry with a concrete date that was first
\* seen in an earlier run is a candidate, so a deferred entry inside the grace
\* window for which such an entry passes the tests is matched by the run.
C8_EarlierActiveIsCandidate ==
    Ran => \A d \in Range(last.result.awaiting) : \A c \in Ids(last.prior) :
              /\ UnlinkedActiveWithDate(c)
              /\ c \notin PairedTargets
              /\ StaticallyEligible(d, c)
              => d \in PairedOriginals

\* C8 as amended: the candidates are exactly the entries created by the run
\* doing the matching that are Active and have a non-empty EventDate; an
\* Active entry first seen in an earlier run is never a candidate; a deferred
\* entry inside the window is matched whenever a candidate created by this run
\* passes its tests and is left unconsumed.
C8_OnlyNewTargets ==
    Ran => /\ Range(last.result.targets) =
                 { id \in Range(last.result.newly_added) :
                      /\ AfterPass1(id).current_status = "active"
                      /\ AfterPass1(id).event_data.EventDate # NoDate }
           /\ PairedTargets \subseteq Range(last.result.newly_added)
           /\ \A d \in Range(last.result.awaiting) :
                 d \notin PairedOriginals =>
                    ~\E c \in Range(last.result.targets) \ PairedTargets :
                        StaticallyEligible(d, c)

\* a deferred entry inside the window is left unmatched although an unlinked
\* Active entry first seen by an earlier run, and fetched again by this one,
\* passes all its tests
C8_Witness ==
    /\ Ran
    /\ \E d \in Range(last.result.awaiting) : \E c \in Ids(last.prior) :
          /\ UnlinkedActiveWithDate(c)
          /\ AfterPass1(c).last_processed_timestamp = last.time
          /\ StaticallyEligible(d, c)
          /\ After(d).current_status = "deferred_pending_match"

----------------------------------------------------------------------------
(* Eligibility and tie-break of the matching pass *)

OriginalData(p) == AfterPass1(p.deferred_event_id).event_data

TargetData(p) == AfterPass1(p.rescheduled_to_event_id).event_data

ConsumedBefore(c, p) ==
    \E q \in PairsOfRun :
        /\ q.rescheduled_to_event_id = c
        /\ PosIn(last.result.awaiting, q.deferred_event_id) <
               PosIn(last.result.awaiting, p.deferred_event_id)

FreeEligibleTargets(p) ==
    { c \in Range(last.result.targets) :
        StaticallyEligible(p.deferred_event_id, c) /\ ~ConsumedBefore(c, p) }

\* C10: tie-break. The candidate a deferred entry is paired with has the
\* minimum date/time among the candidates that pass its tests and were not
\* consumed earlier in the pass.
C10_EarliestEligible ==
    Ran => \A p \in PairsOfRun :
              /\ p.rescheduled_to_event_id \in FreeEligibleTargets(p)
              /\ \A c \in FreeEligibleTargets(p) :
                    get_event_datetime(TargetData(p)) <=
                        get_event_datetime(AfterPass1(c).event_data)

\* a deferred entry with two free eligible candidates, paired with the earlier
\* one although the later one was fetched first
C10_Witness ==
    /\ Ran
    /\ \E p \in PairsOfRun : \E c \in FreeEligibleTargets(p) :
          /\ get_event_datetime(AfterPass1(c).event_data) >
                 get_event_datetime(TargetData(p))
          /\ IndexOf(seen_events_db, c) < IndexOf(seen_events_db, p.rescheduled_to_event_id)

----------------------------------------------------------------------------
\* C11: on a successful match the deferred entry ends the run with status
\* deferred_rescheduled_internal and a link to its successor holding the
\* candidate's identity, date and time as of the match, and the candidate
\* ends the run active with a link to its original holding the deferred
\* entry's identity, date and time as of the match.
C11_MatchLinks ==
    Ran => \A p \in PairsOfRun :
              LET d == After(p.deferred_event_id)
                  c == After(p.rescheduled_to_event_id)
              IN  /\ d.current_status = "deferred_rescheduled_internal"
                  /\ HasLink(d.rescheduled_event_details_if_deferred)
                  /\ d.rescheduled_event_details_if_deferred.matched_event_id =
                         p.rescheduled_to_event_id
                  /\ d.rescheduled_event_details_if_deferred.new_date =
                         TargetData(p).EventDate
                  /\ d.rescheduled_event_details_if_deferred.new_time =
                         TargetData(p).EventTime
                  /\ c.current_status = "active"
                  /\ HasLink(c.original_event_details_if_rescheduled)
                  /\ c.original_event_details_if_rescheduled.original_event_id =
                         p.deferred_event_id
                  /\ c.original_event_details_if_rescheduled.original_date =
                         OriginalData(p).EventDate
                  /\ c.original_event_details_if_rescheduled.original_time =
                         OriginalData(p).EventTime

\* Scenario A: a deferred hearing is matched with a newly fetched hearing whose
\* time of day differs from its own, and the successor's link holds the
\* original's time
C11_Witness ==
    /\ Ran
    /\ \E p \in PairsOfRun :
          /\ After(p.deferred_event_id).current_status = "deferred_rescheduled_internal"
          /\ After(p.rescheduled_to_event_id).current_status = "active"
          /\ OriginalData(p).EventTime # TargetData(p).EventTime
          /\ After(p.rescheduled_to_event_id).original_event_details_if_rescheduled.original_time
                 = OriginalData(p).EventTime

----------------------------------------------------------------------------
\* the entries of the store that carry a link to an original
Successors ==
    {i \in 1..Len(seen_events_db) :
        HasLink(seen_events_db[i].original_event_details_if_rescheduled)}

\* C12 as stated: every entry whose link to an original is populated has
\* last_alert_type "new" or "rescheduled_as_new", never a deferral type.
C12_SuccessorNeverDeferralAlert ==
    \A i \in Successors :
        seen_events_db[i].last_alert_type \in {"new", "rescheduled_as_new"}

\* C12: a match leaves its successor with last_alert_type "new"; an entry
\* whose link to an original is populated has last_alert_type "new", or
\* "deferred" with an alert timestamp later than the match that linked it,
\* the alert of its own later deferral.
C12_SuccessorAlert ==
    /\ Ran => \A p \in PairsOfRun :
                 After(p.rescheduled_to_event_id).last_alert_type = "new"
    /\ \A i \in Successors :
          LET e == seen_events_db[i]
          IN  \/ e.last_alert_type = "new"
              \/ /\ e.last_alert_type = "deferred"
                 /\ e.last_alert_timestamp >
                        e.original_event_details_if_rescheduled.match_timestamp

\* a successor matched by an earlier run is deferred by this one and keeps
\* its link
C12_Witness ==
    /\ Ran
    /\ \E i \in Successors :
          LET e == seen_events_db[i]
          IN  /\ e.current_status = "deferred_pending_match"
              /\ e.last_alert_type = "deferred"
              /\ e.last_alert_timestamp = last.time
              /\ e.original_event_details_if_rescheduled.match_timestamp < last.time

----------------------------------------------------------------------------
\* whether the store db holds an entry for id with a link to an original
LinkedToOriginalIn(db, id) ==
    /\ id \in Ids(db)
    /\ HasLink(Entry(db, id).original_event_details_if_rescheduled)

\* C13: the link to a successor is populated exactly on the entries whose
\* status is deferred_rescheduled_internal, and the link to an original is
\* populated only on entries a match selected as successor: an entry carries
\* it after a run only if it carried it before or the run paired it as the
\* successor.
C13_LinksFollowStatus ==
    /\ \A i \in 1..Len(seen_events_db) :
          HasLink(seen_events_db[i].rescheduled_event_details_if_deferred)
              <=> seen_events_db[i].current_status = "deferred_rescheduled_internal"
    /\ Ran => \A id \in Ids(seen_events_db) :
                 LinkedToOriginalIn(seen_events_db, id) =>
                     \/ LinkedToOriginalIn(last.prior, id)
                     \/ id \in PairedTargets

----------------------------------------------------------------------------
\* the identities of the records of the last fetched batch
BatchIds == {last.batch[k].EventId : k \in 1..Len(last.batch)}

\* C14: no run removes a tracked entry. The identities in the store after a
\* run are those before it together with those of the batch, whether or not
\* the earlier ones were fetched again, and the store holds exactly one entry
\* per identity.
C14_NeverDeletes ==
    /\ \A i, j \in 1..Len(seen_events_db) :
          seen_events_db[i].event_data.EventId = seen_events_db[j].event_data.EventId
              => i = j
    /\ Ran => /\ Ids(last.prior) \subseteq Ids(seen_events_db)
              /\ Ids(seen_events_db) = Ids(last.prior) \cup BatchIds

\* a run that fetches a new identity and a known one while a third known
\* identity is absent from the batch
C14_Witness ==
    /\ Ran
    /\ \E a, b, c \in Ids(seen_events_db) :
          /\ a \in Ids(last.prior) /\ a \notin BatchIds
          /\ b \in Ids(last.prior) /\ b \in BatchIds
          /\ c \notin Ids(last.prior) /\ c \in BatchIds

----------------------------------------------------------------------------
\* the tracked identities the last batch did not hold
AbsentIds == Ids(last.prior) \ BatchIds

\* the tags Pass 3 attaches to an entry absent from the batch
DiagnosticTags ==
    {"vanished_from_api_while_active", "vanished_from_api_while_deferred_pending"}

\* the tags of entry b are those of entry a, or those with one diagnostic tag
\* appended
TagsExtended(a, b) ==
    \/ b.processing_tags = a.processing_tags
    \/ \E tag \in DiagnosticTags : b.processing_tags = Append(a.processing_tags, tag)

\* entry b is entry a but for its tags
SameButTags(a, b) ==
    [b EXCEPT !.processing_tags = <<>>] = [a EXCEPT !.processing_tags = <<>>]

\* entry b is entry a taken as the original of a match at time t
MatchedAsOriginal(a, b, t) ==
    /\ a.current_status = "deferred_pending_match"
    /\ a.last_alert_timestamp >= t - MatchCutoffDays
    /\ b.current_status = "deferred_rescheduled_internal"
    /\ HasLink(b.rescheduled_event_details_if_deferred)
    /\ b.last_significant_change_timestamp = t
    /\ b.processing_tags =
           Append(a.processing_tags, "became_rescheduled_match_found_for_original")
    /\ [b EXCEPT !.processing_tags = <<>>] =
           [a EXCEPT !.processing_tags = <<>>,
                     !.current_status = b.current_status,
                     !.rescheduled_event_details_if_deferred =
                         b.rescheduled_event_details_if_deferred,
                     !.last_significant_change_timestamp = t]

\* C15 as stated: an entry whose identity is not in the batch keeps its
\* snapshot, status, alert, links and timestamps; only a diagnostic tag may be
\* added.
C15_AbsentUntouched ==
    Ran => \A id \in AbsentIds :
              /\ SameButTags(Before(id), After(id))
              /\ TagsExtended(Before(id), After(id))

\* C15: an entry whose identity is not in the batch keeps its snapshot,
\* status, alert, links and timestamps, only a diagnostic tag being added,
\* unless it is pending a match within the cutoff and the matching pass pairs
\* it: then its status, link to the successor, last significant change and
\* tags are those of a matched original and everything else, its alert
\* included, is unchanged.
C15_AbsentFrame ==
    Ran => \A id \in AbsentIds :
              IF id \in PairedOriginals
              THEN MatchedAsOriginal(Before(id), After(id), last.time)
              ELSE /\ SameButTags(Before(id), After(id))
                   /\ TagsExtended(Before(id), After(id))

\* a run whose batch holds neither a pending entry, which it pairs with a new
\* hearing, nor an active entry, which it tags
C15_Witness ==
    /\ Ran
    /\ \E a, b \in AbsentIds :
          /\ a \in PairedOriginals
          /\ After(a).last_seen_timestamp < last.time
          /\ b \notin PairedOriginals
          /\ After(b).processing_tags =
                 Append(Before(b).processing_tags, "vanished_from_api_while_active")

----------------------------------------------------------------------------
\* the record of the last batch with identity id
RecordOf(id) ==
    last.batch[CHOOSE k \in 1..Len(last.batch) : last.batch[k].EventId = id]

\* the identities the last batch held that the store did not
NewIds == BatchIds \ Ids(last.prior)

\* the five timestamps of an entry
Timestamps(e) ==
    << e.first_seen_timestamp, e.last_seen_timestamp, e.last_processed_timestamp,
       e.last_significant_change_timestamp, e.last_alert_timestamp >>

\* C16: a record whose identity is not in the prior store creates an entry
\* whose first_seen, last_seen, last_processed, last_significant_change and
\* last_alert timestamps all equal the run time, both as created and at the
\* end of the run, created with status active and alert "new" when the label
\* is not Deferred and with status deferred_pending_match and alert
\* "deferred" when it is; the alert is still the same at the end of the run.
C16_Creation ==
    Ran => \A id \in NewIds :
              LET t == last.time
                  created == AfterPass1(id)
                  pair == IF IsDeferredApi(RecordOf(id))
                          THEN <<"deferred_pending_match", "deferred">>
                          ELSE <<"active", "new">>
              IN  /\ id \in Range(last.result.newly_added)
                  /\ Timestamps(created) = <<t, t, t, t, t>>
                  /\ Timestamps(After(id)) = <<t, t, t, t, t>>
                  /\ <<created.current_status, created.last_alert_type>> = pair
                  /\ After(id).last_alert_type = pair[2]

\* a run after the first that creates one entry from a Deferred record and
\* one from a record that is not
C16_Witness ==
    /\ Ran
    /\ last.prior # <<>>
    /\ \E a, b \in NewIds :
          /\ IsDeferredApi(RecordOf(a))
          /\ AfterPass1(a).current_status = "deferred_pending_match"
          /\ ~IsDeferredApi(RecordOf(b))
          /\ After(b).last_alert_type = "new"

----------------------------------------------------------------------------
\* the tracked identities the last batch held
KnownIds == BatchIds \cap Ids(last.prior)

\* C17: whenever a run processes a record labelled Deferred for a known entry
\* that is active, the entry ends Pass 1 with status deferred_pending_match,
\* last_alert_type "deferred" and last_alert_timestamp equal to the run time,
\* and its identity is in the run's newly-deferred list.
C17_DeferralOfActive ==
    Ran => \A id \in KnownIds :
              (Before(id).current_status = "active" /\ IsDeferredApi(RecordOf(id)))
                  => /\ AfterPass1(id).current_status = "deferred_pending_match"
                     /\ AlertOf(AfterPass1(id)) = <<"deferred", last.time>>
                     /\ id \in Range(last.result.newly_deferred)

\* an active entry alerted as new by an earlier run is reported Deferred
C17_Witness ==
    /\ Ran
    /\ \E id \in KnownIds :
          /\ Before(id).current_status = "active"
          /\ Before(id).last_alert_type = "new"
          /\ Before(id).last_alert_timestamp < last.time
          /\ IsDeferredApi(RecordOf(id))
          /\ AfterPass1(id).current_status = "deferred_pending_match"

----------------------------------------------------------------------------
\* C18: whenever a run processes a record whose label is not Deferred for an
\* entry in deferred_pending_match, the entry is active after Pass 1 and at
\* the end of the run, and its last_alert_type and last_alert_timestamp are
\* those it had before the run.
C18_ReversionKeepsAlert ==
    Ran => \A id \in KnownIds :
              (Before(id).current_status = "deferred_pending_match"
                  /\ ~IsDeferredApi(RecordOf(id)))
                  => /\ AfterPass1(id).current_status = "active"
                     /\ After(id).current_status = "active"
                     /\ AlertOf(AfterPass1(id)) = AlertOf(Before(id))
                     /\ AlertOf(After(id)) = AlertOf(Before(id))

\* a pending entry deferred by an earlier run is reported Final: it is active
\* again and still carries the alert of its deferral
C18_Witness ==
    /\ Ran
    /\ \E id \in KnownIds :
          /\ Before(id).current_status = "deferred_pending_match"
          /\ ~IsDeferredApi(RecordOf(id))
          /\ After(id).current_status = "active"
          /\ After(id).last_alert_type = "deferred"
          /\ After(id).last_alert_timestamp < last.time

----------------------------------------------------------------------------
\* the fields the snapshot is said to hold: body name, date, time, location,
\* agenda link, comment and status label
SnapshotFields(event_data) ==
    << event_data.EventBodyName, event_data.EventDate, event_data.EventTime,
       event_data.EventLocation, event_data.EventAgendaFile,
       event_data.EventComment, event_data.EventAgendaStatusName >>

\* C19: after a run, for every identity of the batch the stored snapshot holds
\* the fetched body name, date, time, location, agenda link, comment and
\* status label, and for an identity the store already held
\* last_significant_change_timestamp is the run time exactly when the date,
\* time, location, body name, status label or comment of the record differed
\* from the stored snapshot.
C19_SnapshotIsLatest ==
    Ran => /\ \A id \in BatchIds :
                 SnapshotFields(After(id).event_data) = SnapshotFields(RecordOf(id))
           /\ \A id \in KnownIds :
                 After(id).last_significant_change_timestamp = last.time
                     <=> check_significant_event_data_change(
                             RecordOf(id), Before(id).event_data)

----------------------------------------------------------------------------
\* the Upcoming feed of the artifact the last run wrote
Upcoming == web_file.upcoming_hearings

\* the identities of the cards of the Upcoming feed
UpcomingIds == {Upcoming[k].event_data.EventId : k \in 1..Len(Upcoming)}

\* the instant the last run started at: its day and its time of day
NowDt == TodayDt(last.time) + last.slot

\* the tracked identities that are active with a parsed date/time at or after dt
ActiveFrom(dt) ==
    {id \in Ids(seen_events_db) :
        /\ After(id).current_status = "active"
        /\ get_event_datetime(After(id).event_data) # NoDT
        /\ get_event_datetime(After(id).event_data) >= dt}

\* C20 as stated: the Upcoming feed holds exactly the entries that are active
\* with a parsed date/time at or after now, and no entry of a deferred status.
C20_UpcomingFromNow ==
    Ran => /\ UpcomingIds = ActiveFrom(NowDt)
           /\ \A k \in 1..Len(Upcoming) : Upcoming[k].current_status = "active"

\* C20: the Upcoming feed holds exactly the entries that are active with a
\* parsed date/time at or after the midnight that starts the day of the run,
\* each once and as the store holds it, and no entry of a deferred status.
C20_UpcomingFromToday ==
    Ran => /\ UpcomingIds = ActiveFrom(TodayDt(last.time))
           /\ Len(Upcoming) = Cardinality(UpcomingIds)
           /\ \A k \in 1..Len(Upcoming) :
                 /\ Upcoming[k].current_status = "active"
                 /\ [f \in DOMAIN After(Upcoming[k].event_data.EventId) |-> Upcoming[k][f]]
                        = After(Upcoming[k].event_data.EventId)

\* a run in the afternoon: a hearing of that morning is in the Upcoming feed,
\* and a matched original dated that day is not
C20_Witness ==
    /\ Ran
    /\ \E id \in UpcomingIds :
          get_event_datetime(After(id).event_data) < NowDt
    /\ \E id \in Ids(seen_events_db) \ UpcomingIds :
          /\ After(id).current_status = "deferred_rescheduled_internal"
          /\ get_event_datetime(After(id).event_data) >= TodayDt(last.time)

----------------------------------------------------------------------------
\* the since-last-run feed of the artifact the last run wrote
SinceLastRun == web_file.updates_since_last_run

\* the identities of the items of an update feed
FeedIds(feed) == {feed[k].data.event_data.EventId : k \in 1..Len(feed)}

\* the tracked identities whose alert the last run set: the entries it created
\* and the active entries it moved to deferred_pending_match
AlertedIds ==
    NewIds \cup {id \in KnownIds : /\ Before(id).current_status = "active"
                                   /\ AfterPass1(id).current_status =
                                          "deferred_pending_match"}

\* an item of an update feed is the stored entry under its own alert
ItemIsEntry(item) ==
    LET e == After(item.data.event_data.EventId)
    IN  /\ item.data = e
        /\ item.type = e.last_alert_type
        /\ item.alert_timestamp = e.last_alert_timestamp

\* C21: the since-last-run feed of a run holds exactly the entries whose
\* alert was set during that run, those created and those moved from active
\* to deferred_pending_match, each once, the type of an item being the
\* last_alert_type of its entry; these are the entries whose
\* last_alert_timestamp is the run time, so an entry that was only matched or
\* only refreshed is not in the feed.
C21_SinceLastRun ==
    Ran => /\ FeedIds(SinceLastRun) = AlertedIds
           /\ AlertedIds = {id \in Ids(seen_events_db) :
                               After(id).last_alert_timestamp = last.time}
           /\ Len(SinceLastRun) = Cardinality(AlertedIds)
           /\ \A k \in 1..Len(SinceLastRun) : ItemIsEntry(SinceLastRun[k])

\* a run that creates an entry, pairs a pending entry it did not alert and
\* refreshes the snapshot of an active one: only the first is in the feed
C21_Witness ==
    /\ Ran
    /\ \E a \in NewIds, b \in KnownIds, c \in PairedOriginals :
          /\ a \in FeedIds(SinceLastRun)
          /\ Before(b).current_status = "active"
          /\ After(b).event_data # Before(b).event_data
          /\ b \notin FeedIds(SinceLastRun)
          /\ c \in Ids(last.prior)
          /\ c \notin FeedIds(SinceLastRun)

----------------------------------------------------------------------------
\* the two windowed feeds of the artifact the last run wrote
Last7Days == web_file.updates_last_7_days

Last30Days == web_file.updates_last_30_days

\* the age in days of the alert of a tracked entry at the last run
AlertAgeDays(id) == last.time - After(id).last_alert_timestamp

\* the alert of a tracked entry is a deferral, or is "new" for a hearing
\* dated today or later
ShownInWindows(id) ==
    \/ After(id).last_alert_type = "deferred"
    \/ /\ After(id).last_alert_type = "new"
       /\ get_event_datetime(After(id).event_data) # NoDT
       /\ get_event_datetime(After(id).event_data) >= TodayDt(last.time)

\* feed holds exactly the tracked entries shown in the windows whose alert is
\* at most days old, each once and under its own alert
WindowFeedIs(feed, days) ==
    /\ FeedIds(feed) = {id \in Ids(seen_events_db) :
                           AlertAgeDays(id) <= days /\ ShownInWindows(id)}
    /\ Len(feed) = Cardinality(FeedIds(feed))
    /\ \A k \in 1..Len(feed) : ItemIsEntry(feed[k])

\* C22: an entry is in the last-7-days (last-30-days) feed iff its
\* last_alert_timestamp is at most 7 (30) days old and either its alert is a
\* deferral, whatever the date of the hearing, or its alert is "new" and the
\* hearing is dated today or later.
C22_WindowFeeds ==
    Ran => /\ WindowFeedIs(Last7Days, ShortWindowDays)
           /\ WindowFeedIs(Last30Days, LongWindowDays)

\* a run exactly seven days after the alerts: a deferral for a past hearing
\* and a "new" alert for a coming hearing are in the 7-day feed, a "new" alert
\* for a past hearing is in neither feed
C22_Witness ==
    /\ Ran
    /\ \E a, b, c \in Ids(seen_events_db) :
          /\ AlertAgeDays(a) = ShortWindowDays
          /\ After(a).last_alert_type = "deferred"
          /\ get_event_datetime(After(a).event_data) < TodayDt(last.time)
          /\ a \in FeedIds(Last7Days)
          /\ AlertAgeDays(b) = ShortWindowDays
          /\ After(b).last_alert_type = "new"
          /\ b \in FeedIds(Last7Days)
          /\ After(c).last_alert_type = "new"
          /\ get_event_datetime(After(c).event_data) < TodayDt(last.time)
          /\ c \notin FeedIds(Last30Days)

----------------------------------------------------------------------------
\* the cards of feed are in non-decreasing order of event date/time
AscendingByDate(feed) ==
    \A k \in 1..(Len(feed) - 1) :
        get_event_datetime(feed[k].event_data) <=
            get_event_datetime(feed[k + 1].event_data)

\* the items of feed are in non-increasing order of alert timestamp, those of
\* equal alert timestamp in non-increasing order of event date/time
DescendingByAlert(feed) ==
    \A k \in 1..(Len(feed) - 1) :
        \/ feed[k].alert_timestamp > feed[k + 1].alert_timestamp
        \/ /\ feed[k].alert_timestamp = feed[k + 1].alert_timestamp
           /\ get_event_datetime(feed[k].data.event_data) >=
                  get_event_datetime(feed[k + 1].data.event_data)

\* C23: every feed is ordered by its rule: Upcoming is non-decreasing in
\* event date/time, and each of the three update feeds is non-increasing in
\* alert timestamp, items of equal alert timestamp being ordered by event
\* date/time descending.
C23_FeedOrder ==
    Ran => /\ AscendingByDate(Upcoming)
           /\ DescendingByAlert(SinceLastRun)
           /\ DescendingByAlert(Last7Days)
           /\ DescendingByAlert(Last30Days)

\* the Upcoming feed lists two hearings in the reverse of the store's order,
\* and the 30-day feed holds alerts of two runs, two of them of the same run
\* for hearings of different dates
C23_Witness ==
    /\ Ran
    /\ \E i, j \in 1..Len(Upcoming) :
          /\ i < j
          /\ IndexOf(seen_events_db, Upcoming[i].event_data.EventId) >
                 IndexOf(seen_events_db, Upcoming[j].event_data.EventId)
    /\ \E i, j, k \in 1..Len(Last30Days) :
          /\ Last30Days[i].alert_timestamp > Last30Days[j].alert_timestamp
          /\ Last30Days[j].alert_timestamp = Last30Days[k].alert_timestamp
          /\ get_event_datetime(Last30Days[j].data.event_data) >
                 get_event_datetime(Last30Days[k].data.event_data)

----------------------------------------------------------------------------
\* the last run has ended and no other run is under way
AtRest == inflight = NoneInFlight

\* the store a run starting now would load
StoredNow == load_seen_events(seen_events_db)

----------------------------------------------------------------------------
\* the last run fetched a batch and has ended, by returning or by raising,
\* without a fault of the save
BatchRunEnded ==
    /\ AtRest
    /\ \/ last.kind = "crashed"
       \/ last.kind = "run" /\ last.saved = "written"

\* C25: a malformed record in the batch does not abort the run: once the run
\* has ended every well-formed record of the batch has been reconciled, its
\* entry being in the persisted store as processed at the run time.
C25_FailureIsolation ==
    BatchRunEnded =>
        \A k \in 1..Len(last.batch) :
            "EventId" \in DOMAIN last.batch[k] =>
                /\ last.batch[k].EventId \in Ids(StoredNow)
                /\ Entry(StoredNow, last.batch[k].EventId).last_processed_timestamp
                       = last.time

----------------------------------------------------------------------------
\* the date of a record is missing or is a string strptime rejects, so that
\* get_event_datetime gives None
Undated(event_data) == event_data.EventDate \in {NoDate, BadDate}

\* C26: a record whose date/time cannot be parsed is still created and
\* tracked under its identity; its entry is never in the Upcoming feed, never
\* in the 7-day or 30-day feed under a "new" alert, never chosen as the
\* successor of a match and never matched as an original.
C26_UndatedRecords ==
    Ran => /\ \A k \in 1..Len(last.batch) :
                 last.batch[k].EventId \in Ids(seen_events_db)
           /\ \A id \in Ids(seen_events_db) :
                 Undated(After(id).event_data) =>
                     /\ get_event_datetime(After(id).event_data) = NoDT
                     /\ id \notin UpcomingIds
                     /\ After(id).last_alert_type = "new" =>
                            id \notin FeedIds(Last7Days) \cup FeedIds(Last30Days)
                     /\ id \notin PairedTargets
                     /\ id \notin PairedOriginals

\* a deferred hearing and a newly fetched active one of the same committee
\* whose date does not parse: the new one is tracked, is a potential target
\* of the matching pass, and is neither paired nor shown in Upcoming or in the
\* 30-day feed
C26_Witness ==
    /\ Ran
    /\ \E a, b \in Ids(seen_events_db) :
          /\ a \in Range(last.result.awaiting)
          /\ After(a).current_status = "deferred_pending_match"
          /\ After(b).event_data.EventDate = BadDate
          /\ After(b).last_alert_type = "new"
          /\ b \in Range(last.result.targets)
          /\ b \notin PairedTargets
          /\ b \notin UpcomingIds
          /\ b \notin FeedIds(Last30Days)
          /\ a \in FeedIds(Last30Days)

----------------------------------------------------------------------------
\* C27: if the store cannot be written the run is aborted: no partial state
\* is committed, and the run does not go on to write a web artifact that
\* describes a state that was never persisted. So whenever a run has written
\* its artifact, the persisted store is readable and is the store the
\* artifact was built from.
C27_SaveFailureIsFatal ==
    (AtRest /\ last.kind = "run") =>
        /\ seen_events_db # CorruptFile
        /\ StoredNow = last.to_save

----------------------------------------------------------------------------
\* the runs under way that have loaded the store
Started == {p \in Procs : inflight[p].pc # "idle"}

\* C28: a run reads the store once at its start and writes it once, after
\* every record of the batch has been evaluated, so that at every point of a
\* run the persisted state is either the state the run loaded or its fully
\* reconciled state, and a run that fails during reconciliation leaves the
\* persisted state as it was.
C28_AtomicSave ==
    /\ \A p \in Started :
          \/ StoredNow = inflight[p].seen
          \/ /\ inflight[p].pc \in {"dump", "output"}
             /\ StoredNow = inflight[p].to_save
    /\ (AtRest /\ last.kind = "crashed") => StoredNow = last.prior

----------------------------------------------------------------------------
\* the runs that have loaded the store and not yet begun to write it
NotYetSaving == {p \in Started : inflight[p].pc \in {"loaded", "save"}}

\* the identities of the batch a run under way fetched
FetchedIds(p) == {inflight[p].batch[k].EventId : k \in 1..Len(inflight[p].batch)}

\* C29: when the persisted state is missing or cannot be parsed, the run
\* loads the empty state instead of failing and reconciles the batch as a
\* first-ever execution does: the reconciled store holds exactly the records
\* of the batch, each of them reported as newly added, first seen at this run
\* and carrying an alert timestamped at this run.
C29_MissingStateIsEmpty ==
    \A p \in NotYetSaving :
        seen_events_db \in {MissingFile, CorruptFile} =>
            /\ inflight[p].seen = <<>>
            /\ (inflight[p].pc = "save" /\ inflight[p].kind = "run") =>
                  LET run == inflight[p]
                  IN  /\ run.result = process_event_changes(run.batch, <<>>, run.time)
                      /\ Ids(run.to_save) = FetchedIds(p)
                      /\ Range(run.result.newly_added) = FetchedIds(p)
                      /\ \A id \in FetchedIds(p) :
                            LET e == Entry(run.to_save, id)
                            IN  /\ e.first_seen_timestamp = run.time
                                /\ e.last_alert_timestamp = run.time
                                /\ e.last_alert_type \in {"new", "deferred", "rescheduled"}

\* a second run finds the file an earlier failed write left unparseable and
\* has reconciled a batch of two records against the empty state
C29_Witness ==
    /\ inflight[1].pc = "save"
    /\ inflight[1].kind = "run"
    /\ seen_events_db = CorruptFile
    /\ runs = 2
    /\ last.kind = "run"
    /\ last.saved = "partly written"
    /\ Len(inflight[1].batch) = 2
    /\ Len(inflight[1].to_save) = 2

----------------------------------------------------------------------------
\* the scheduler has one slot: at most one run is under way at a time
OneSlot == inflight[2] = Unscheduled

\* the last run ended with its store written in full
LastSaved == last.kind \in {"run", "empty"} /\ last.saved = "written"

\* with one slot, the store a completed run wrote holds every entry it
\* loaded, stays on disk as written, and is the state the next run loads and
\* extends
OneAtATimeLosesNothing ==
    (OneSlot /\ LastSaved) =>
        /\ Ids(last.prior) \subseteq Ids(last.to_save)
        /\ inflight[1].pc = "idle" => seen_events_db = last.to_save
        /\ inflight[1].pc \in {"loaded", "save", "dump", "output"} =>
              inflight[1].seen = last.to_save
        /\ inflight[1].pc \in {"save", "dump", "output"} =>
              Ids(last.to_save) \subseteq Ids(inflight[1].to_save)

\* the step in which process p writes the store in full
Writes(p) ==
    /\ inflight[p].pc = "dump"
    /\ inflight'[p].pc = "output"
    /\ inflight'[p].saved = "written"

\* a write replaces the file by the store the writer reconciled from the
\* state it had loaded itself and from its own batch, whatever any other run
\* wrote in between
WriteIsOwnStateOnly ==
    \A p \in Procs :
        Writes(p) =>
            /\ seen_events_db' = inflight[p].to_save
            /\ Ids(seen_events_db') = Ids(inflight[p].seen) \cup FetchedIds(p)
            /\ inflight[p].kind = "run" =>
                  inflight[p].to_save =
                      process_event_changes(inflight[p].batch, inflight[p].seen,
                                            inflight[p].time).db

----------------------------------------------------------------------------
\* the batch of the last run in each of its orders
Reorderings(batch) ==
    { [k \in 1..Len(batch) |-> batch[f[k]]] : f \in Permutations(1..Len(batch)) }

\* the pairings a result reports, as identities
PairIds(result) ==
    { << p.deferred_event_id, p.rescheduled_to_event_id >> :
          p \in Range(result.newly_rescheduled_pairs) }

\* C31: the pairings of a run depend on the prior state and on the set of
\* fetched records only: the same records in any other order give the same
\* pairings; and of two deferred entries for which the same candidate passes
\* the tests, the candidate goes to the one with the earlier original date.
C31_OrderIndependent ==
    Ran =>
        /\ \A batch \in Reorderings(last.batch) :
              PairIds(process_event_changes(batch, last.prior, last.time)) =
                  PairIds(last.result)
        /\ \A pair \in PairIds(last.result) :
              \A other \in Range(last.result.awaiting) :
                  StaticallyEligible(other, pair[2]) =>
                      get_event_datetime(AfterPass1(pair[1]).event_data) <=
                          get_event_datetime(AfterPass1(other).event_data)

----------------------------------------------------------------------------
\* the entries the last run moved to deferred_rescheduled_internal
BecameRescheduled ==
    { id \in Ids(seen_events_db) :
        /\ After(id).current_status = "deferred_rescheduled_internal"
        /\ id \in Ids(last.prior) =>
               Before(id).current_status # "deferred_rescheduled_internal" }

\* C32: the matching pass attempts a match only for entries that are
\* deferred_pending_match when it starts and whose last_alert_timestamp is at
\* most 30 days before the run; every entry a run moves to
\* deferred_rescheduled_internal is one of them, so none is moved at a run at
\* which its deferral alert is older than that.
C32_MatchWithinWindow ==
    Ran => /\ \A id \in Range(last.result.awaiting) :
                 /\ id \in PendingAtMatching
                 /\ ~PastCutoff(id)
           /\ PairedOriginals \subseteq Range(last.result.awaiting)
           /\ BecameRescheduled = PairedOriginals
           /\ \A id \in BecameRescheduled : AlertAge(id) <= MatchCutoffDays

\* the second run fetches a new hearing that passes every test of an entry
\* deferred by the first: exactly 30 days after the deferral the entry is
\* moved to deferred_rescheduled_internal
C32_Witness ==
    /\ Ran
    /\ \E id \in BecameRescheduled \cap Ids(last.prior) :
          /\ AlertAge(id) = MatchCutoffDays
          /\ Before(id).current_status = "deferred_pending_match"

----------------------------------------------------------------------------
\* the entries that were deferred_pending_match when the last run began
WasPending ==
    { id \in Ids(last.prior) : Before(id).current_status = "deferred_pending_match" }

\* the source still labels the entry Deferred, or did not serve it
StillDeferredAtSource(id) == id \in BatchIds => IsDeferredApi(RecordOf(id))

----------------------------------------------------------------------------
\* the entry is active exactly when its snapshot's label is not Deferred
StatusFollowsLabel(e) ==
    e.current_status = "active" <=> e.event_data.EventAgendaStatusName # "Deferred"

\* the known entries of the last batch that were active and are fetched
\* labelled Deferred
DeferredWhileActive ==
    { id \in KnownIds : /\ Before(id).current_status = "active"
                        /\ IsDeferredApi(RecordOf(id)) }

----------------------------------------------------------------------------
\* entry s carries the link to original naming entry e
NamesOriginal(s, e) ==
    /\ HasLink(s.original_event_details_if_rescheduled)
    /\ s.original_event_details_if_rescheduled.original_event_id = e.event_data.EventId

\* entry e carries the link to successor naming entry s
NamesSuccessor(e, s) ==
    /\ HasLink(e.rescheduled_event_details_if_deferred)
    /\ e.rescheduled_event_details_if_deferred.matched_event_id = s.event_data.EventId

\* C35: links are symmetric in every reachable state: an entry names another
\* as its original if and only if that entry names it as its successor.
C35_LinksSymmetric ==
    \A i, j \in 1..Len(seen_events_db) :
        NamesOriginal(seen_events_db[i], seen_events_db[j]) <=>
            NamesSuccessor(seen_events_db[j], seen_events_db[i])

----------------------------------------------------------------------------
\* C36: in every reachable state each entry's first_seen_timestamp is at most
\* its last_alert_timestamp, which is at most its last_seen_timestamp; and no
\* run changes the first_seen_timestamp of an entry it found in the store.
C36_TimestampOrder ==
    /\ \A i \in 1..Len(seen_events_db) :
          LET e == seen_events_db[i]
          IN  /\ e.first_seen_timestamp <= e.last_alert_timestamp
              /\ e.last_alert_timestamp <= e.last_seen_timestamp
    /\ Ran => \A id \in Ids(last.prior) :
                 After(id).first_seen_timestamp = Before(id).first_seen_timestamp

\* an entry created by one run, deferred by a later one and fetched again by
\* the run after that
C36_Witness ==
    /\ Ran
    /\ \E id \in KnownIds :
          /\ After(id).first_seen_timestamp < After(id).last_alert_timestamp
          /\ After(id).last_alert_timestamp < After(id).last_seen_timestamp
          /\ After(id).last_seen_timestamp = last.time

----------------------------------------------------------------------------
\* C37: in every artifact generate_output_for_webpage produces, every item of
\* updates_last_7_days is also an item of updates_last_30_days.
C37_ShortWithinLong ==
    Ran => Range(Last7Days) \subseteq Range(Last30Days)

\* the 7-day feed holds an alert and the 30-day feed holds it and an older one
C37_Witness ==
    /\ Ran
    /\ Last7Days # <<>>
    /\ \E item \in Range(Last30Days) :
          /\ item \notin Range(Last7Days)
          /\ last.time - item.alert_timestamp > ShortWindowDays

----------------------------------------------------------------------------
\* C38: in every reachable state each tracked entry's snapshot carries the
\* SyntheticMeetingTopic fetched when the entry was created, including after
\* runs in which the entry's fetched data changed.
C38_TopicKept ==
    \A i \in 1..Len(seen_events_db) :
        LET event_data == seen_events_db[i].event_data
        IN  /\ "SyntheticMeetingTopic" \in DOMAIN event_data
            /\ event_data.SyntheticMeetingTopic = FetchedTopic(event_data.EventId)

----------------------------------------------------------------------------
\* the call of get_events under way, and the last one that returned
Call == inflight[1]

InGetEvents == Call.pc \in {"paging", "return"}

Fetched == last.kind = "fetched"

\* s is the first records of the source, in the source's order
PrefixOfSource(s) == Len(s) <= Len(source) /\ s = SubSeq(source, 1, Len(s))

\* what the loop has gathered is the full pages requested so far, in order,
\* and the requests are bounded by the number of pages of the source
PagesInOrder ==
    InGetEvents =>
        /\ PrefixOfSource(Call.all_events)
        /\ Call.pc = "paging" =>
              /\ Len(Call.all_events) = Call.current_skip
              /\ Call.current_skip = Call.requests * Call.max_per_page
        /\ Call.max_per_page >= 1 =>
              Call.requests <= (Len(source) \div Call.max_per_page) + 1

\* the list returned after an error is the full pages received before it
StopsAtError ==
    (Fetched /\ last.failed) =>
        /\ PrefixOfSource(last.events)
        /\ Len(last.events) = (last.requests - 1) * last.top

====
